---------------------------- MODULE Spec2Model ----------------------------
(***************************************************************************)
(* Model of the telecom-offer scraper: src/scrape.mjs (the variant with    *)
(* the worker pool, lines 644-1175, and the normRow/estimateCO2 variant,   *)
(* lines 210-641) and src/unnamed/part_000 (the Yallo card scraper).       *)
(*                                                                         *)
(* Conventions                                                             *)
(*  - JavaScript strings are TLA+ strings; a regular expression is written *)
(*    out as the search it performs on the characters.                     *)
(*  - The strings of the model are ASCII: the letter e-acute is written &, *)
(*    its capital @, i-circumflex ^ and a-grave $ ("Illimit&" is the       *)
(*    sentinel).                                                           *)
(*  - A JavaScript value that is "a number or nothing" (a price or '' ,    *)
(*    an estimate or null) is a sequence of length 0 or 1.                 *)
(*  - Decimal numbers are carried exactly as integer hundredths (12.9 is   *)
(*    1290); the CO2 arithmetic is carried in 1/10000 kg and its results   *)
(*    in tenths of a kg (19.1 is 191).                                     *)
(***************************************************************************)
EXTENDS Integers, Sequences, FiniteSets, TLC

VARIABLES
    \* ---- canonicalize -> calculateCO2 on one row (scrape.mjs 1008-1030)
    row,        \* the row object being built
    pageText,   \* bodyText handed to canonicalize
    rowPc,      \* "raw" -> "canonical" -> "estimated"
    \* ---- one offer referenced in two runs of the program
    offer,      \* the stable inputs: operator, title/name, url, type, price
    now,        \* index of the current time in Clock
    refRuns,    \* the references computed so far, one record per run
    \* ---- scrape.mjs, module state
    seenRefs,   \* const seenRefs = new Set()
    \* ---- scrape.mjs, runWithPool and main
    urls,       \* the list handed to runWithPool
    index,      \* let index = 0
    results,    \* const results = []
    ok,         \* let ok = 0
    ko,         \* let ko = 0
    worker,     \* per worker: the await it is at (pc), my, r, lastErr, row
    refOf,      \* history: the reference given to the row of each URL ("" if none)
    thrown,     \* history: the number of attempts that threw
    finalRows,  \* main: [...map.values()], once computed
    mainPc,     \* main: "pool" -> "written"
    \* ---- repeated calls of extractOfferFromPage
    calls,      \* the URL and the row of each call, in order
    \* ---- part_000, scrapeYalloMobile and main
    cards,      \* the candidate cards returned by page.evaluate
    idx,        \* the loop index of scrapeYalloMobile
    rows,       \* const rows = [] of scrapeYalloMobile
    yNow,       \* index of the current time in Clock
    yPc,        \* "loop" -> "returned" | "stopped" -> "written"
    csvRows,    \* the rows main has written to data/latest.csv
    \* ---- scrape.mjs, the sitemap variant: run and normRow
    sample,     \* the pages of the run: operator and URL of each, in order
    nIdx,       \* the pages handled so far
    allRows,    \* const allRows = []
    outRows,    \* the rows handed to writeCSV
    nPc,        \* "scan" -> "written"
    \* ---- the speed conversions as pure functions
    spValue,    \* the value as the page shows it
    spUnit,     \* the unit as the page shows it
    spSep,      \* what stands between them in a speed text
    spFn,       \* the conversion applied: "" before any
    spOut,      \* its result: the digits of an integer, or "" for nothing
    \* ---- the serialization to CSV
    csvIn,      \* the rows handed to toCSV
    csvFn,      \* the toCSV applied: "" before any
    csvText,    \* the text it returns
    \* ---- the main routines and their Airtable loops
    variant,    \* "main", "run" (scrape.mjs) or "part_000"
    secrets,    \* the Airtable secrets of the environment
    fault,      \* the awaited call that rejects in this execution
    yield,      \* the number of rows that the scrape returns
    sinkRows,   \* the number of rows that the routine holds
    file,       \* data/latest.csv: <<>> if absent, <<n>> for the header and n rows
    sent,       \* history: the requests sent to the store, with their answers
    logs,       \* the lines logged
    exitCode,   \* <<>> while running, then the exit code
    sinkPc,     \* the await the routine is at
    \* ---- runWithPool observed
    tally,      \* history: per URL index, the claims, the attempts and the rows pushed
    \* ---- fetchSitemapUrls
    web,        \* what a fetch gives for each sitemap URL
    stack,      \* the calls of fetchSitemapUrls in progress
    fetches,    \* history: the calls of fetchTextSmart
    found,      \* the sitemaps whose page URLs were returned
    smPc        \* "running" until the first call returns

rowVars == <<row, pageText, rowPc>>
refVars == <<offer, now, refRuns>>
poolVars == <<urls, index, results, ok, ko, worker, refOf, thrown, finalRows, mainPc>>
callVars == <<calls>>
yalloVars == <<cards, idx, rows, yNow, yPc, csvRows>>
normVars == <<sample, nIdx, allRows, outRows, nPc>>
speedVars == <<spValue, spUnit, spSep, spFn, spOut>>
csvVars == <<csvIn, csvFn, csvText>>
sinkVars == <<variant, secrets, fault, yield, sinkRows, file, sent, logs, exitCode, sinkPc>>
auditVars == <<tally>>
sitemapVars == <<web, stack, fetches, found, smPc>>
vars == <<row, pageText, rowPc, offer, now, refRuns, seenRefs, urls, index, results, ok, ko, worker, refOf, thrown, finalRows, mainPc, calls, cards, idx, rows, yNow, yPc, csvRows, sample, nIdx, allRows, outRows, nPc, spValue, spUnit, spSep, spFn, spOut, csvIn, csvFn, csvText, variant, secrets, fault, yield, sinkRows, file, sent, logs, exitCode, sinkPc, tally, web, stack, fetches, found, smPc>>

-----------------------------------------------------------------------------
(* Characters and strings                                                  *)

Digits == "0123456789"
UpperChars == "ABCDEFGHIJKLMNOPQRSTUVWXYZ@"
LowerChars == "abcdefghijklmnopqrstuvwxyz&"

CharAt(s, i) == SubSeq(s, i, i)

IsDigit(c) == \E i \in 1..Len(Digits) : CharAt(Digits, i) = c

DigitVal(c) == (CHOOSE i \in 1..Len(Digits) : CharAt(Digits, i) = c) - 1

\* String.prototype.toLowerCase, one character
LowerChar(c) ==
    IF \E i \in 1..Len(UpperChars) : CharAt(UpperChars, i) = c
    THEN CharAt(LowerChars, CHOOSE i \in 1..Len(UpperChars) : CharAt(UpperChars, i) = c)
    ELSE c

RECURSIVE toLowerCase(_)
toLowerCase(s) ==
    IF s = "" THEN ""
    ELSE LowerChar(CharAt(s, 1)) \o toLowerCase(SubSeq(s, 2, Len(s)))

\* String.prototype.includes
includes(s, t) ==
    \E i \in 0..(Len(s) - Len(t)) : SubSeq(s, i + 1, i + Len(t)) = t

\* the text t stands in s at index i
MatchesAt(s, i, t) == i + Len(t) - 1 <= Len(s) /\ SubSeq(s, i, i + Len(t) - 1) = t

startsWith(s, t) == MatchesAt(s, 1, t)

IsSpace(c) == c = " "

\* String.prototype.trim
RECURSIVE trim(_)
trim(s) ==
    IF s = "" THEN ""
    ELSE IF IsSpace(CharAt(s, 1)) THEN trim(SubSeq(s, 2, Len(s)))
    ELSE IF IsSpace(CharAt(s, Len(s))) THEN trim(SubSeq(s, 1, Len(s) - 1))
    ELSE s

\* s.replace(/[^\d]/g, '')
RECURSIVE digitsOnly(_)
digitsOnly(s) ==
    IF s = "" THEN ""
    ELSE (IF IsDigit(CharAt(s, 1)) THEN CharAt(s, 1) ELSE "")
         \o digitsOnly(SubSeq(s, 2, Len(s)))

\* s.replace(a, b) with a string pattern: the first occurrence only
replaceFirst(s, a, b) ==
    IF includes(s, a)
    THEN LET i == CHOOSE k \in 0..(Len(s) - Len(a)) :
                    /\ SubSeq(s, k + 1, k + Len(a)) = a
                    /\ \A j \in 0..(k - 1) : SubSeq(s, j + 1, j + Len(a)) # a
         IN SubSeq(s, 1, i) \o b \o SubSeq(s, i + Len(a) + 1, Len(s))
    ELSE s

-----------------------------------------------------------------------------
(* Numbers in text                                                         *)

\* index just after the run of digits that starts at i (i itself if none)
RECURSIVE DigitsEnd(_, _)
DigitsEnd(s, i) ==
    IF i <= Len(s) /\ IsDigit(CharAt(s, i)) THEN DigitsEnd(s, i + 1) ELSE i

\* index just after a match of \d+(?:[.,]\d+)? at i, or 0 when there is none
NumEnd(s, i, seps) ==
    LET e == DigitsEnd(s, i) IN
    IF e = i THEN 0
    ELSE IF /\ e <= Len(s)
            /\ CharAt(s, e) \in seps
            /\ DigitsEnd(s, e + 1) > e + 1
         THEN DigitsEnd(s, e + 1)
         ELSE e

\* index just after the run of \s that starts at i
RECURSIVE SkipSpaces(_, _)
SkipSpaces(s, i) ==
    IF i <= Len(s) /\ IsSpace(CharAt(s, i)) THEN SkipSpaces(s, i + 1) ELSE i

\* value of a run of digits
RECURSIVE DigitsValue(_)
DigitsValue(s) ==
    IF s = "" THEN 0
    ELSE 10 * DigitsValue(SubSeq(s, 1, Len(s) - 1)) + DigitVal(CharAt(s, Len(s)))

\* parseFloat of a text matched by -?\d+(?:[.,]\d+)? once ',' is '.':
\* the value in hundredths (digits after the second decimal are dropped)
parseFloat100(s) ==
    LET neg  == s # "" /\ CharAt(s, 1) = "-"
        u    == IF neg THEN SubSeq(s, 2, Len(s)) ELSE s
        e    == DigitsEnd(u, 1)
        ip   == DigitsValue(SubSeq(u, 1, e - 1))
        frac == IF e <= Len(u) THEN SubSeq(u, e + 1, Len(u)) ELSE ""
        f2   == SubSeq(frac \o "00", 1, 2)
        v    == 100 * ip + DigitsValue(f2)
    IN IF neg THEN 0 - v ELSE v

\* start of the leftmost match of -?\d+(?:SEP\d+)? in s, 0 when there is none
NumStart(s) ==
    LET starts == { i \in 1..Len(s) :
                      \/ IsDigit(CharAt(s, i))
                      \/ CharAt(s, i) = "-" /\ i < Len(s) /\ IsDigit(CharAt(s, i + 1)) }
    IN IF starts = {} THEN 0
       ELSE CHOOSE i \in starts : \A j \in starts : i <= j

\* the text of that leftmost match
NumMatch(s, seps) ==
    LET i == NumStart(s)
        d == IF CharAt(s, i) = "-" THEN i + 1 ELSE i
    IN SubSeq(s, i, NumEnd(s, d, seps) - 1)

\* String(n) for an integer n
RECURSIVE NatToString(_)
NatToString(n) ==
    IF n < 10 THEN CharAt(Digits, n + 1)
    ELSE NatToString(n \div 10) \o CharAt(Digits, (n % 10) + 1)

IntToString(n) == IF n < 0 THEN "-" \o NatToString(0 - n) ELSE NatToString(n)

\* String(x) for a number x given in hundredths: 1290 is "12.9", 2500 is "25"
NumToString(h) ==
    LET a  == IF h < 0 THEN 0 - h ELSE h
        ip == NatToString(a \div 100)
        f  == a % 100
        fs == IF f = 0 THEN ""
              ELSE IF f % 10 = 0 THEN "." \o NatToString(f \div 10)
              ELSE "." \o CharAt(Digits, (f \div 10) + 1) \o CharAt(Digits, (f % 10) + 1)
    IN (IF h < 0 THEN "-" ELSE "") \o ip \o fs

\* Math.round of a number given in hundredths (ties go up)
MathRound100(h) == (h + 50) \div 100


-----------------------------------------------------------------------------
(* A row: the 17 columns of HEADERS, named as extractByRegex names them.   *)
(* price, priceOld and co2 are numbers or nothing; the rest are strings.   *)

Row(ref, operator, name, price, priceOld, discount, tv, speed, sms, appels, roamData, roamMin, neighbors, typeOffre, expiration, co2, engagement) ==
    [ ref |-> ref, operator |-> operator, name |-> name, price |-> price,
      priceOld |-> priceOld, discount |-> discount, tv |-> tv, speed |-> speed,
      sms |-> sms, appels |-> appels, roamData |-> roamData, roamMin |-> roamMin,
      neighbors |-> neighbors, typeOffre |-> typeOffre, expiration |-> expiration,
      co2 |-> co2, engagement |-> engagement ]

Sentinel == "Illimit&"
Mobile == "1 SIM ( Mobile )"
HomeNoTV == "2 Home Cable Box"
HomeWithTV == "3 Home Cable Box + TV"

-----------------------------------------------------------------------------
(* scrape.mjs: numberish, numCO2, calculateCO2                             *)

\* numberish(s): the first -?\d+(?:[.,]\d+)? of s as a number, or null
numberish(s) ==
    IF NumStart(s) = 0 THEN <<>>
    ELSE <<parseFloat100(replaceFirst(NumMatch(s, {".", ","}), ",", "."))>>

\* numberish of a field that holds a number or '' (String(v) first)
numberishOpt(v) == IF v = <<>> THEN <<>> ELSE numberish(NumToString(v[1]))

\* numCO2(v): [inf, v]: Infinity, or a number in hundredths
numCO2(v) ==
    IF includes(toLowerCase(v), "illimit&") THEN [inf |-> TRUE, v |-> 0]
    ELSE LET s == replaceFirst(v, ",", ".") IN
         IF NumStart(s) = 0 THEN [inf |-> FALSE, v |-> 0]
         ELSE [inf |-> FALSE, v |-> parseFloat100(NumMatch(s, {"."}))]

\* Math.round(base * 10) / 10 for base in 1/10000: the result in tenths
RoundTenths(base) == (base + 500) \div 1000

\* the Mobile branch before rounding, in 1/10000 kg, with the threshold
\* comparison of the speed written as a strict one
mobileBase_strict(r) ==
    LET n          == numberish(r.speed)
        speed      == IF n = <<>> THEN 0 ELSE n[1]
        name       == toLowerCase(r.name)
        base0      == IF speed < 30000 THEN 125000 ELSE 145000
        callsB     == IF includes(toLowerCase(r.appels), "illimit&") THEN 5000 ELSE 0
        smsB       == IF includes(toLowerCase(r.sms), "illimit&") THEN 5000 ELSE 0
        roaming_go == numCO2(r.roamData)
        roaming_cont == IF roaming_go.inf THEN 183000 ELSE roaming_go.v * 35
        minB  == IF includes(toLowerCase(r.roamMin), "illimit") THEN 122000 ELSE 0
        premB == IF includes(name, "noir") \/ includes(name, "black") THEN 5000 ELSE 0
    IN base0 + callsB + smsB + roaming_cont - minB - premB

\* the Mobile branch of calculateCO2 before rounding, in 1/10000 kg
mobileBase(r) ==
    LET n          == numberish(r.speed)
        speed      == IF n = <<>> THEN 0 ELSE n[1]
        data_itin  == r.roamData
        min_roam   == r.roamMin
        name       == toLowerCase(r.name)
        base0      == IF speed <= 30000 THEN 125000 ELSE 145000
        callsB     == IF includes(toLowerCase(r.appels), "illimit&") THEN 5000 ELSE 0
        smsB       == IF includes(toLowerCase(r.sms), "illimit&") THEN 5000 ELSE 0
        roaming_go == numCO2(data_itin)
        is_unlimited_roam_go  == roaming_go.inf
        is_unlimited_roam_min == includes(toLowerCase(min_roam), "illimit")
        roaming_cont == IF is_unlimited_roam_go THEN 183000 ELSE roaming_go.v * 35
        minB  == IF is_unlimited_roam_min THEN 122000 ELSE 0
        premB == IF includes(name, "noir") \/ includes(name, "black") THEN 5000 ELSE 0
    IN base0 + callsB + smsB + roaming_cont - minB - premB

\* the Home branch with the TV supplement left out
homeBase_noTV(r) ==
    LET name == toLowerCase(r.name)
    IN IF includes(name, "fiber") THEN 300000
       ELSE IF includes(name, "5g") THEN 450000
       ELSE 350000

\* the Home branch of calculateCO2 before rounding, in 1/10000 kg
homeBase(r) ==
    LET tv    == r.tv
        name  == toLowerCase(r.name)
        base0 == IF includes(name, "fiber") THEN 300000
                 ELSE IF includes(name, "5g") THEN 450000
                 ELSE 350000
        tvB   == IF tv # "" /\ includes(toLowerCase(tv), "chaine") THEN 500000 ELSE 0
    IN base0 + tvB

\* calculateCO2(row): the estimate in tenths of a kg, or null
calculateCO2(r) ==
    LET type_offer == r.typeOffre IN
    IF includes(type_offer, "1 ") THEN <<RoundTenths(mobileBase(r))>>
    ELSE IF includes(type_offer, "2 ") \/ includes(type_offer, "3 ")
         THEN <<RoundTenths(homeBase(r))>>
    ELSE <<>>

-----------------------------------------------------------------------------
(* scrape.mjs: canonicalize                                                *)

\* /illimit|unlimited|ohne limit|flat|illimitato/i  (the pattern's last
\* alternative, the infinity sign, is outside the module's character set)
IsUnlimitedText(v) ==
    LET t == toLowerCase(v) IN
    \/ includes(t, "illimit") \/ includes(t, "unlimited") \/ includes(t, "ohne limit")
    \/ includes(t, "flat") \/ includes(t, "illimitato")

normInf(v) ==
    IF IsUnlimitedText(v) THEN Sentinel
    ELSE IF trim(v) = "-" THEN "" ELSE v

\* starts of the matches of (\d+(?:[.,]\d+)?)\s*U for a letter U, any case
NumUnitStarts(s, unit) ==
    { i \in 1..Len(s) :
        /\ IsDigit(CharAt(s, i))
        /\ LET k == SkipSpaces(s, NumEnd(s, i, {".", ","}))
           IN k <= Len(s) /\ LowerChar(CharAt(s, k)) = unit }

\* group 1 of the leftmost match
NumUnitGroup(s, unit) ==
    LET i == CHOOSE k \in NumUnitStarts(s, unit) :
                 \A j \in NumUnitStarts(s, unit) : k <= j
    IN SubSeq(s, i, NumEnd(s, i, {".", ","}) - 1)

\* /280\s*cha/ on a lowercased text
Has280Cha(t) ==
    \E i \in 1..Len(t) :
        /\ MatchesAt(t, i, "280")
        /\ MatchesAt(t, SkipSpaces(t, i + 3), "cha")

canonSpeed(speed) ==
    LET sp == IF NumUnitStarts(speed, "g") # {}
                THEN IntToString(MathRound100(
                        parseFloat100(replaceFirst(NumUnitGroup(speed, "g"), ",", ".")) * 1000))
              ELSE IF NumUnitStarts(speed, "m") # {}
                THEN IntToString(MathRound100(
                        parseFloat100(replaceFirst(NumUnitGroup(speed, "m"), ",", "."))))
              ELSE speed
    IN digitsOnly(sp)

\* the TV step as it would be with "Sans TV" written for no TV
canonTV_sansTV(tv) ==
    LET tvt == toLowerCase(tv) IN
    IF Has280Cha(tvt) THEN "280 Chaines"
    ELSE IF includes(tvt, "tv") \/ includes(tvt, "replay") \/ includes(tvt, "box")
         THEN "280 Chaines" ELSE "Sans TV"

canonTV(tv) ==
    LET tvt == toLowerCase(tv) IN
    IF Has280Cha(tvt) THEN "280 Chaines"
    ELSE IF includes(tvt, "tv") \/ includes(tvt, "replay") \/ includes(tvt, "box")
         THEN "280 Chaines" ELSE "Non"

\* /home|internet|cable|fiber|fibre|box|tv|5g home/i on the page text
PageIsHome(page) ==
    \/ includes(page, "home") \/ includes(page, "internet") \/ includes(page, "cable")
    \/ includes(page, "fiber") \/ includes(page, "fibre") \/ includes(page, "box")
    \/ includes(page, "tv") \/ includes(page, "5g home")

\* /home|cable|fiber|tv/ on the lowercased type
TypeIsHome(type) ==
    \/ includes(type, "home") \/ includes(type, "cable")
    \/ includes(type, "fiber") \/ includes(type, "tv")

\* the category taken from the page text alone
canonType_pageOnly(typeOffre, tv, text) ==
    IF PageIsHome(toLowerCase(text))
    THEN (IF tv # "Non" THEN HomeWithTV ELSE HomeNoTV) ELSE Mobile

canonType(typeOffre, tv, text) ==
    LET page   == toLowerCase(text)
        type   == toLowerCase(typeOffre)
        isHome == PageIsHome(page) \/ TypeIsHome(type)
        hasTV  == tv # "Non"
    IN IF isHome THEN (IF hasTV THEN HomeWithTV ELSE HomeNoTV) ELSE Mobile

canonDiscount(discount) ==
    LET rb  == replaceFirst(replaceFirst(discount, "%", ""), ",", ".")
        rbn == numberish(rb)
    IN IF rbn = <<>> THEN "" ELSE IntToString(MathRound100(rbn[1]))

canonicalize(r, text) ==
    LET page == toLowerCase(text)
        tv   == canonTV(r.tv)
    IN [ r EXCEPT
           !.roamData   = normInf(r.roamData),
           !.roamMin    = normInf(r.roamMin),
           !.speed      = canonSpeed(r.speed),
           !.tv         = tv,
           !.typeOffre  = canonType(r.typeOffre, tv, text),
           !.discount   = canonDiscount(r.discount),
           !.price      = numberishOpt(r.price),
           !.priceOld   = numberishOpt(r.priceOld),
           !.engagement = IF r.engagement = "" /\ includes(page, "sans engagement")
                          THEN "Sans engagement" ELSE r.engagement,
           !.expiration = IF /\ r.expiration = ""
                             /\ \/ includes(page, "remise permanente")
                                \/ includes(page, "rabais permanent")
                          THEN "Remise permanente" ELSE r.expiration ]

-----------------------------------------------------------------------------
(* scrape.mjs, normRow variant: clean, toNum, isTvOn, estimateCO2          *)

\* clean(s): the no-break space is outside the module's character set
clean(s) == trim(s)

hasInf(s) == includes(toLowerCase(clean(s)), "illimit&")

\* toNum(s): [inf, v]
toNum(s0) ==
    LET s == clean(s0) IN
    IF s = "" \/ s = "-" \/ toLowerCase(s) = "null" THEN [inf |-> FALSE, v |-> 0]
    ELSE IF hasInf(s) THEN [inf |-> TRUE, v |-> 0]
    ELSE IF NumStart(s) = 0 THEN [inf |-> FALSE, v |-> 0]
    ELSE [inf |-> FALSE,
          v |-> parseFloat100(replaceFirst(NumMatch(s, {".", ","}), ",", "."))]

isTvOn(tv) ==
    LET v == toLowerCase(clean(tv)) IN
    IF v = "" \/ v = "non" THEN FALSE
    ELSE includes(v, "chaine") \/ includes(v, "cha^ne") \/ includes(v, "tv")

Max(a, b) == IF a >= b THEN a ELSE b

\* estimateCO2(row): the estimate in tenths of a kg (0 for an unknown type)
estimateCO2(r) ==
    LET typeOffer == clean(r.typeOffre)
        speed     == toNum(r.speed)
        dataItin  == clean(r.roamData)
        minRoam   == clean(r.roamMin)
        name      == toLowerCase(clean(r.name))
    IN
    IF startsWith(typeOffer, "1 ") THEN
        LET base0  == IF ~speed.inf /\ speed.v <= 30000 THEN 125000 ELSE 145000
            callsB == IF includes(toLowerCase(clean(r.appels)), "illimit&") THEN 5000 ELSE 0
            smsB   == IF includes(toLowerCase(clean(r.sms)), "illimit&") THEN 5000 ELSE 0
            roamGo == toNum(dataItin)
            roamB  == IF ~roamGo.inf THEN roamGo.v * 35 ELSE 183000
            minB   == IF toNum(minRoam).inf THEN 122000 ELSE 0
            premB  == IF includes(name, "noir") \/ includes(name, "black") THEN 5000 ELSE 0
        IN Max(0, RoundTenths(base0 + callsB + smsB + roamB - minB - premB))
    ELSE IF startsWith(typeOffer, "2 ") \/ startsWith(typeOffer, "3 ") THEN
        LET base0 == IF includes(name, "fiber") THEN 300000
                     ELSE IF includes(name, "5g") THEN 450000
                     ELSE 350000
            tvB   == IF isTvOn(r.tv) THEN 500000 ELSE 0
        IN RoundTenths(base0 + tvB)
    ELSE 0

-----------------------------------------------------------------------------
(* part_000: numForCO2, calculateCO2, round1                               *)

\* numForCO2(v): [inf, v]; the pattern \d+\.?\d* after the first ',' is '.'
numForCO2(v) ==
    IF v = "" THEN [inf |-> FALSE, v |-> 0]
    ELSE IF includes(toLowerCase(v), "illimit") THEN [inf |-> TRUE, v |-> 0]
    ELSE LET s == replaceFirst(v, ",", ".")
             starts == { i \in 1..Len(s) : IsDigit(CharAt(s, i)) }
         IN IF starts = {} THEN [inf |-> FALSE, v |-> 0]
            ELSE LET i  == CHOOSE k \in starts : \A j \in starts : k <= j
                     e  == DigitsEnd(s, i)
                     e2 == IF e <= Len(s) /\ CharAt(s, e) = "."
                           THEN DigitsEnd(s, e + 1) ELSE e
                 IN [inf |-> FALSE, v |-> parseFloat100(SubSeq(s, i, e2 - 1))]

round1(base) == RoundTenths(base)

\* part_000 calculateCO2(row); speed is the number handed in (0 for none)
yalloCalculateCO2(r, speed) ==
    LET type_offer == r.typeOffre
        data_itin  == r.roamData
        min_roam   == r.roamMin
        tv         == IF r.tv = "" THEN "Non" ELSE r.tv
        name       == toLowerCase(r.name)
    IN
    IF includes(type_offer, "1 ") THEN
        LET base0  == IF speed # 0 /\ speed <= 300 THEN 125000 ELSE 145000
            callsB == IF includes(toLowerCase(r.appels), "illimit") THEN 5000 ELSE 0
            smsB   == IF includes(toLowerCase(r.sms), "illimit") THEN 5000 ELSE 0
            roaming_go == numForCO2(data_itin)
            is_unlimited_roam_go  == roaming_go.inf
            is_unlimited_roam_min == numForCO2(min_roam).inf
            roaming_cont == IF is_unlimited_roam_go THEN 183000 ELSE roaming_go.v * 35
            minB  == IF is_unlimited_roam_min THEN 122000 ELSE 0
            premB == IF includes(name, "noir") \/ includes(name, "black") THEN 5000 ELSE 0
        IN <<round1(base0 + callsB + smsB + roaming_cont - minB - premB)>>
    ELSE IF includes(type_offer, "2 ") \/ includes(type_offer, "3 ") THEN
        LET base0 == IF includes(name, "fiber") THEN 300000
                     ELSE IF includes(name, "5g") THEN 450000
                     ELSE 350000
            tvB   == IF tv # "Non" /\ includes(toLowerCase(tv), "chaine") THEN 500000 ELSE 0
        IN <<round1(base0 + tvB)>>
    ELSE <<>>

-----------------------------------------------------------------------------
(* The row pipeline of extractOfferFromPage (scrape.mjs 1008-1030): the    *)
(* row is built from the extracted fields, canonicalized, then estimated.  *)

Names        == {"Offre", "Yallo Black", "Swiss Noir Max", "Home Fiber", "Home 5G"}
TVValues     == {"Non", "280 Chaines"}
SpeedValues  == {"", "300", "301"}
SmsValues    == {"", "Illimit&"}
AppelsValues == {"", "Illimit&"}
RoamDataValues == {"", "Illimit&", "5", "1,5"}
RoamMinValues  == {"", "Illimit&", "60"}
TypeValues   == {Mobile, HomeNoTV, HomeWithTV}
PageTexts    == {"Appels et SMS en Suisse", "Internet Box"}

RawRows ==
    { Row("", "Yallo", nm, <<>>, <<>>, "", tv, sp, sms, ap, rd, rm, "", ty, "", <<>>, "") :
        nm \in Names, tv \in TVValues, sp \in SpeedValues, sms \in SmsValues,
        ap \in AppelsValues, rd \in RoamDataValues, rm \in RoamMinValues,
        ty \in TypeValues }

RowInit ==
    /\ row \in RawRows
    /\ pageText \in PageTexts
    /\ rowPc = "raw"

\* scrape.mjs 1028: canonicalize(row, bodyText)
Canonicalize ==
    /\ rowPc = "raw"
    /\ row' = canonicalize(row, pageText)
    /\ rowPc' = "canonical"
    /\ UNCHANGED pageText

\* scrape.mjs 1029-1030: const co2 = calculateCO2(row); if (co2 !== null) ...
Estimate ==
    /\ rowPc = "canonical"
    /\ LET co2 == calculateCO2(row)
       IN row' = IF co2 # <<>> THEN [row EXCEPT !.co2 = co2] ELSE row
    /\ rowPc' = "estimated"
    /\ UNCHANGED pageText

RowIdle == row = <<>> /\ pageText = "" /\ rowPc = "idle"

-----------------------------------------------------------------------------
(* Properties of the CO2 estimate                                          *)

\* the canonical speed (a run of digits, or empty counted as 0) in Mbit/s
SpeedMbps(r) == IF r.speed = "" THEN 0 ELSE DigitsValue(r.speed)

\* the roaming data of a canonical row in hundredths of a GB
RoamGB100(r) ==
    IF r.roamData = "" THEN 0 ELSE parseFloat100(replaceFirst(r.roamData, ",", "."))

\* the Mobile formula of the claim, in tenths of a kg
MobileFormula(r) ==
    LET speedPart == IF SpeedMbps(r) <= 300 THEN 1250 ELSE 1450
        callsPart == IF r.appels = Sentinel THEN 50 ELSE 0
        smsPart   == IF r.sms = Sentinel THEN 50 ELSE 0
        roamPart100 == IF r.roamData = Sentinel THEN 183000 ELSE RoamGB100(r) * 35
        minPart   == IF r.roamMin = Sentinel THEN 1220 ELSE 0
        namePart  == IF includes(toLowerCase(r.name), "noir")
                        \/ includes(toLowerCase(r.name), "black") THEN 50 ELSE 0
    IN RoundTenths(100 * (speedPart + callsPart + smsPart - minPart - namePart)
                   + roamPart100)

IsYalloBlackExample(r) ==
    /\ r.typeOffre = Mobile /\ r.speed = "300" /\ r.name = "Yallo Black"
    /\ r.appels = Sentinel /\ r.sms = Sentinel
    /\ r.roamData = Sentinel /\ r.roamMin = Sentinel

\* C7: for every Mobile row, calculateCO2 of scrape.mjs returns, rounded to one
\* decimal, (12.5 if speed <= 300, empty speed counting as 0, else 14.5) + 0.5 for
\* unlimited calls + 0.5 for unlimited SMS + (18.3 for unlimited roaming data, else
\* roaming GB * 0.35) - 12.2 for unlimited roaming minutes - 0.5 when the lowercased
\* name contains "noir" or "black"; speed 300, the four quantities unlimited and
\* the name "Yallo Black" give 19.1.
C7_MobileFormula ==
    (rowPc = "estimated" /\ row.typeOffre = Mobile) =>
        /\ row.co2 = <<MobileFormula(row)>>
        /\ IsYalloBlackExample(row) => row.co2 = <<191>>

C7_Witness == rowPc = "estimated" /\ IsYalloBlackExample(row) /\ row.co2 = <<191>>

HomeFormula(r) ==
    LET name == toLowerCase(r.name)
        base == IF includes(name, "fiber") THEN 300
                ELSE IF includes(name, "5g") THEN 450
                ELSE 350
    IN base + (IF r.typeOffre = HomeWithTV THEN 500 ELSE 0)

\* C10: for every row of category HomeNoTV or HomeWithTV the estimate is 30.0 if
\* the (lowercased) name contains "fiber", else 45.0 if it contains "5g", else
\* 35.0, plus 50.0 exactly when the category is HomeWithTV, in calculateCO2 of
\* scrape.mjs, in estimateCO2 and in calculateCO2 of part_000; a HomeWithTV row
\* whose name contains "fiber" gives 80.0.
C10_HomeFormula ==
    (rowPc = "estimated" /\ row.typeOffre \in {HomeNoTV, HomeWithTV}) =>
        /\ row.co2 = <<HomeFormula(row)>>
        /\ estimateCO2(row) = HomeFormula(row)
        /\ yalloCalculateCO2(row, SpeedMbps(row)) = <<HomeFormula(row)>>
        /\ (row.typeOffre = HomeWithTV /\ includes(toLowerCase(row.name), "fiber"))
              => row.co2 = <<800>>

C10_Witness ==
    /\ rowPc = "estimated" /\ row.typeOffre = HomeWithTV
    /\ row.name = "Home Fiber" /\ row.co2 = <<800>>

-----------------------------------------------------------------------------
(* scrape.mjs: slugUpper, fnv32a, typeCode, makeRef                        *)

\* the printable ASCII characters in code order, in four runs that leave out
\* the double quote (34), the backslash (92) and the backquote (96), which no
\* URL path and no slug holds
Ascii32 == " !"
Ascii35 == "#$%&'()*+,-./0123456789:;<=>?@ABCDEFGHIJKLMNOPQRSTUVWXYZ["
Ascii93 == "]^_"
Ascii97 == "abcdefghijklmnopqrstuvwxyz{|}~"

IndexIn(t, c) == CHOOSE i \in 1..Len(t) : CharAt(t, i) = c

\* str.charCodeAt(i)
charCode(c) ==
    IF includes(Ascii32, c) THEN 31 + IndexIn(Ascii32, c)
    ELSE IF includes(Ascii35, c) THEN 34 + IndexIn(Ascii35, c)
    ELSE IF includes(Ascii93, c) THEN 92 + IndexIn(Ascii93, c)
    ELSE 96 + IndexIn(Ascii97, c)

IsAlnum(c) ==
    \/ IsDigit(c)
    \/ \E i \in 1..26 : CharAt(UpperChars, i) = c \/ CharAt(LowerChars, i) = c

UpperChar(c) ==
    IF \E i \in 1..Len(LowerChars) : CharAt(LowerChars, i) = c
    THEN CharAt(UpperChars, CHOOSE i \in 1..Len(LowerChars) : CharAt(LowerChars, i) = c)
    ELSE c

RECURSIVE toUpperCase(_)
toUpperCase(s) ==
    IF s = "" THEN ""
    ELSE UpperChar(CharAt(s, 1)) \o toUpperCase(SubSeq(s, 2, Len(s)))

\* s.slice(0, n)
slice0(s, n) == IF Len(s) <= n THEN s ELSE SubSeq(s, 1, n)

\* normalize('NFD') and removal of the combining marks: the accent is dropped
StripAccent(c) ==
    IF c = "&" THEN "e" ELSE IF c = "@" THEN "E" ELSE IF c = "^" THEN "i" ELSE c

\* the text with every run of characters other than letters and digits
\* replaced by sep; prev tells that the character before was in such a run
RECURSIVE CollapseRuns(_, _, _)
CollapseRuns(s, sep, prev) ==
    IF s = "" THEN ""
    ELSE LET c == StripAccent(CharAt(s, 1))
             rest == SubSeq(s, 2, Len(s))
         IN IF IsAlnum(c) THEN c \o CollapseRuns(rest, sep, FALSE)
            ELSE (IF prev THEN "" ELSE sep) \o CollapseRuns(rest, sep, TRUE)

\* s.replace(/^_|_$/g, ''): one separator off each end
StripEnds(s, sep) ==
    LET a == IF s # "" /\ CharAt(s, 1) = sep THEN SubSeq(s, 2, Len(s)) ELSE s
    IN IF a # "" /\ CharAt(a, Len(a)) = sep THEN SubSeq(a, 1, Len(a) - 1) ELSE a

slugUpper(s) == toUpperCase(StripEnds(CollapseRuns(s, "_", FALSE), "_"))

\* a ^ b on non-negative integers
RECURSIVE BitXor(_, _)
BitXor(a, b) ==
    IF a = 0 THEN b
    ELSE IF b = 0 THEN a
    ELSE 2 * BitXor(a \div 2, b \div 2) + ((a + b) % 2)

\* A 32-bit word is <<hi, lo>>, two 16-bit halves.
\* u >= t for two words
WordGeq(u, t) == u[1] > t[1] \/ (u[1] = t[1] /\ u[2] >= t[2])

\* u + d (mod 2^32) for a small d >= 0
WordAdd(u, d) ==
    LET lo == u[2] + d
    IN <<(u[1] + (lo \div 65536)) % 65536, lo % 65536>>

\* The low 32 bits of the double (u >>> 0) * 0x01000193. The product u * 16777619
\* is below 2^57; a double keeps 53 bits, so from 2^53 on it is rounded to a
\* multiple of q = 2, 4, 8 or 16, ties to the even multiple.
fnvMul(u) ==
    LET x   == u[2] * 403
        y   == u[1] * 403
        lo  == x % 65536
        hi  == (y + (x \div 65536) + (u[2] % 256) * 256) % 65536
        q   == IF WordGeq(u, <<65534, 27907>>) THEN 16
               ELSE IF WordGeq(u, <<32767, 13954>>) THEN 8
               ELSE IF WordGeq(u, <<16383, 39745>>) THEN 4
               ELSE IF WordGeq(u, <<8191, 52641>>) THEN 2
               ELSE 1
        rem  == lo % q
        down == <<hi, lo - rem>>
        odd  == ((lo - rem) \div q) % 2 = 1
        up   == 2 * rem > q \/ (2 * rem = q /\ q > 1 /\ odd)
    IN IF up THEN WordAdd(down, q) ELSE down

Half == 0..65535

\* the loop of fnv32a over str, one character per turn, from the word h0
fnvLoop(h0, str) ==
    LET turn[h \in Half \X Half, i \in 1..(Len(str) + 1)] ==
            IF i > Len(str) THEN h
            ELSE turn[fnvMul(<<h[1], BitXor(h[2], charCode(CharAt(str, i)))>>), i + 1]
    IN turn[h0, 1]

HexDigits == "0123456789ABCDEF"

\* four upper-case hexadecimal digits of a 16-bit half
Hex4(n) ==
    CharAt(HexDigits, (n \div 4096) + 1) \o CharAt(HexDigits, ((n \div 256) % 16) + 1)
    \o CharAt(HexDigits, ((n \div 16) % 16) + 1) \o CharAt(HexDigits, (n % 16) + 1)

\* fnv32a(str): h starts at 0x811c9dc5
fnv32a(str) ==
    LET h == fnvLoop(<<33052, 40389>>, str) IN Hex4(h[1]) \o Hex4(h[2])

typeCode(typeOffre) ==
    IF startsWith(typeOffre, "1") THEN "T1"
    ELSE IF startsWith(typeOffre, "2") THEN "T2"
    ELSE IF startsWith(typeOffre, "3") THEN "T3"
    ELSE "TX"

\* index of the first character of s at or after i that is in cs (Len(s)+1 if none)
RECURSIVE FindChar(_, _, _)
FindChar(s, i, cs) ==
    IF i > Len(s) \/ CharAt(s, i) \in cs THEN i ELSE FindChar(s, i + 1, cs)

\* new URL(url): the URLs of the model are absolute, scheme://host/path?query
UrlHostStart(url) == FindChar(url, 1, {":"}) + 3
hostname(url) ==
    SubSeq(url, UrlHostStart(url), FindChar(url, UrlHostStart(url), {"/", "?", "#"}) - 1)
pathname(url) ==
    LET p == FindChar(url, UrlHostStart(url), {"/", "?", "#"})
        e == FindChar(url, p, {"?", "#"})
    IN IF p = e THEN "/" ELSE SubSeq(url, p, e - 1)

\* makeRef with the hash taken over the title alone
makeRef_noPath(operator, title, url, typeOffre) ==
    LET op == slice0(slugUpper(operator), 8)
        tc == typeCode(typeOffre)
        sl == slice0(slugUpper(title), 24)
        h8 == slice0(fnv32a("|" \o sl), 8)
    IN op \o "_" \o tc \o "_" \o sl \o "_" \o h8

makeRef(operator, title, url, typeOffre) ==
    LET op == slice0(slugUpper(operator), 8)
        tc == typeCode(typeOffre)
        sl == slice0(slugUpper(title), 24)
        pathOnly == pathname(url)
        h8 == slice0(fnv32a(pathOnly \o "|" \o sl), 8)
    IN op \o "_" \o tc \o "_" \o sl \o "_" \o h8

-----------------------------------------------------------------------------
(* scrape.mjs: clean (702), extractByRegex (907-958)                       *)

\* clean(s) of line 702: every run of white space becomes one space, then trim
RECURSIVE collapseSpaces(_, _)
collapseSpaces(s, prev) ==
    IF s = "" THEN ""
    ELSE LET c == CharAt(s, 1)
             rest == SubSeq(s, 2, Len(s))
         IN IF IsSpace(c) THEN (IF prev THEN "" ELSE " ") \o collapseSpaces(rest, TRUE)
            ELSE c \o collapseSpaces(rest, FALSE)

cleanText(s) == trim(collapseSpaces(s, FALSE))

\* index just after a match, at i, of the texts of parts with \s* between
\* them (and after the last), or 0 when they do not stand there
RECURSIVE MatchParts(_, _, _)
MatchParts(s, i, parts) ==
    IF parts = <<>> THEN i
    ELSE IF MatchesAt(s, i, Head(parts))
         THEN MatchParts(s, SkipSpaces(s, i + Len(Head(parts))), Tail(parts))
         ELSE 0

\* RegExp.test for a pattern made of such parts
HasParts(s, parts) == \E i \in 1..Len(s) : MatchParts(s, i, parts) # 0

Least(S) == CHOOSE i \in S : \A j \in S : i <= j

\* starts of the matches of (\d{1,max})\s*TAIL
DigitsTailStarts(s, max, tail) ==
    { i \in 1..Len(s) :
        /\ IsDigit(CharAt(s, i))
        /\ DigitsEnd(s, i) - i <= max
        /\ MatchParts(s, SkipSpaces(s, DigitsEnd(s, i)), tail) # 0 }

\* group 1 of the leftmost of these matches
DigitsTailGroup(s, max, tail) ==
    LET i == Least(DigitsTailStarts(s, max, tail)) IN SubSeq(s, i, DigitsEnd(s, i) - 1)

\* starts of the matches of ([0-9]+(?:SEP[0-9]+)?)\s*TAIL, SEP one of seps
NumTailStarts(s, tail, seps) ==
    { i \in 1..Len(s) :
        /\ IsDigit(CharAt(s, i))
        /\ MatchParts(s, SkipSpaces(s, NumEnd(s, i, seps)), tail) # 0 }

NumTailGroup(s, tail, seps) ==
    LET i == Least(NumTailStarts(s, tail, seps)) IN SubSeq(s, i, NumEnd(s, i, seps) - 1)

\* starts of the numbers that follow HEAD\s*
HeadNumStarts(s, head) ==
    { SkipSpaces(s, i + Len(head)) : i \in { k \in 1..Len(s) :
        /\ MatchesAt(s, k, head)
        /\ NumEnd(s, SkipSpaces(s, k + Len(head)), {".", ","}) # 0 } }

\* the text of the number that starts at i
NumAtSep(s, i, seps) == SubSeq(s, i, NumEnd(s, i, seps) - 1)

NumAt(s, i) == NumAtSep(s, i, {".", ","})

\* parseFloat(m[1].replace(',', '.'))
parsePrice(g) == parseFloat100(replaceFirst(g, ",", "."))

\* /CHF\s*(NUM)/i, else /(NUM)\s*CHF/i: a number or ''
matchPriceNow(t) ==
    IF HeadNumStarts(t, "chf") # {}
    THEN <<parsePrice(NumAt(t, Least(HeadNumStarts(t, "chf"))))>>
    ELSE IF NumTailStarts(t, <<"chf">>, {".", ","}) # {}
    THEN <<parsePrice(NumTailGroup(t, <<"chf">>, {".", ","}))>>
    ELSE <<>>

\* /au lieu de\s*(?:CHF\s*)?(NUM)/i: a number or ''
matchPriceOld(t) ==
    LET after == { SkipSpaces(t, i + 10) : i \in { k \in 1..Len(t) : MatchesAt(t, k, "au lieu de") } }
        numAt(j) == IF MatchesAt(t, j, "chf") /\ NumEnd(t, SkipSpaces(t, j + 3), {".", ","}) # 0
                    THEN SkipSpaces(t, j + 3)
                    ELSE IF NumEnd(t, j, {".", ","}) # 0 THEN j ELSE 0
        hits == { j \in after : numAt(j) # 0 }
    IN IF hits = {} THEN <<>> ELSE <<parsePrice(NumAt(t, numAt(Least(hits))))>>

\* String(Math.round((1 - priceNow/priceOld) * 100)), the prices in hundredths
discountOf(priceNow, priceOld) ==
    IntToString((200 * (priceOld - priceNow) + priceOld) \div (2 * priceOld))

\* a price that is neither '' nor 0
Truthy(n) == n # <<>> /\ n[1] # 0

\* /0[,\.]?15.*sms/i, with 15 and sms given
HasTariff(t, cents, word) ==
    \E i \in 1..Len(t) :
        /\ CharAt(t, i) = "0"
        /\ LET j == IF i < Len(t) /\ CharAt(t, i + 1) \in {",", "."} THEN i + 2 ELSE i + 1
           IN MatchesAt(t, j, cents) /\ includes(SubSeq(t, j + 2, Len(t)), word)

\* /280\s*Cha[i^]nes/i
Has280Chaines(t) == HasParts(t, <<"280", "chaines">>) \/ HasParts(t, <<"280", "cha^nes">>)

\* the speed of extractByRegex
matchSpeed(t) ==
    LET mSp == IF DigitsTailStarts(t, 5, <<"mbit/s">>) # {}
                 THEN IntToString(DigitsValue(DigitsTailGroup(t, 5, <<"mbit/s">>)))
               ELSE IF DigitsTailStarts(t, 3, <<"gbit/s">>) # {}
                 THEN IntToString(DigitsValue(DigitsTailGroup(t, 3, <<"gbit/s">>)) * 1000)
               ELSE IF DigitsTailStarts(t, 3, <<"gbps">>) # {}
                 THEN IntToString(DigitsValue(DigitsTailGroup(t, 3, <<"gbps">>)) * 1000)
               ELSE ""
    IN IF HasParts(t, <<"10000", "mbit/s">>) \/ HasParts(t, <<"10", "gbit/s">>)
       THEN "10000" ELSE mSp

matchNeighbors(t) ==
    IF HasParts(t, <<"fr,", "de,", "it,", "at,", "li">>) THEN "FR, DE, IT, AT, LI"
    ELSE IF HasParts(t, <<"europe,", "usa,", "canada,", "turquie">>)
         THEN "Europe, USA, Canada, Turquie"
    ELSE IF includes(t, "pays voisins + balkans") THEN "Pays voisins + Balkans"
    ELSE IF includes(t, "8 pays les plus populaires") THEN "8 pays les plus populaires"
    ELSE IF includes(t, "top 10 destinations monde") THEN "Top 10 destinations monde"
    ELSE IF includes(t, "europe, us, canada") THEN "Europe, US, Canada"
    ELSE IF includes(t, "pays voisins") THEN "Pays voisins"
    ELSE ""

\* the fields of extractByRegex, found in t = clean(text) lowercased: every
\* pattern has the flag i and every captured group is made of digits and
\* separators
regexFields(t) ==
    LET priceNow == matchPriceNow(t)
        priceOld == matchPriceOld(t)
        discount == IF DigitsTailStarts(t, 3, <<"%">>) # {}
                      THEN DigitsTailGroup(t, 3, <<"%">>)
                    ELSE IF Truthy(priceNow) /\ Truthy(priceOld)
                      THEN discountOf(priceNow[1], priceOld[1])
                    ELSE ""
        tv       == IF Has280Chaines(t) THEN "280 Chaines" ELSE "Non"
        illimit  == includes(t, "illimit")
        roam     == includes(t, "roam") \/ includes(t, "itin")
        appels   == IF includes(t, "appel") /\ illimit THEN Sentinel
                    ELSE IF HasParts(t, <<"1", "h">>) THEN "1 h" ELSE ""
        sms      == IF includes(t, "sms") /\ illimit THEN Sentinel
                    ELSE IF HasTariff(t, "15", "sms") \/ HasTariff(t, "50", "mms")
                      THEN "0.15/SMS, 0.50/MMS" ELSE ""
        roamData == IF roam /\ illimit THEN Sentinel
                    ELSE IF NumTailStarts(t, <<"go">>, {".", ","}) # {}
                      THEN replaceFirst(NumTailGroup(t, <<"go">>, {".", ","}), ",", ".")
                    ELSE ""
        hRoam    == DigitsTailStarts(t, Len(t), <<"h", "roam">>)
                    \cup DigitsTailStarts(t, Len(t), <<"h", "itin">>)
        minRoam  == DigitsTailStarts(t, Len(t), <<"min", "roam">>)
                    \cup DigitsTailStarts(t, Len(t), <<"min", "itin">>)
        roamMin  == IF roam /\ illimit /\ (includes(t, "min") \/ includes(t, "h"))
                      THEN Sentinel
                    ELSE IF hRoam # {}
                      THEN SubSeq(t, Least(hRoam), DigitsEnd(t, Least(hRoam)) - 1)
                    ELSE IF minRoam # {}
                      THEN SubSeq(t, Least(minRoam), DigitsEnd(t, Least(minRoam)) - 1)
                    ELSE ""
        isHome   == \/ includes(t, "home") \/ includes(t, "internet") \/ includes(t, "cable")
                    \/ includes(t, "fiber") \/ includes(t, "fibre") \/ includes(t, "box")
    IN [ priceNow   |-> priceNow,
         priceOld   |-> priceOld,
         discount   |-> discount,
         speedMbps  |-> matchSpeed(t),
         tv         |-> tv,
         appels     |-> appels,
         sms        |-> sms,
         roamData   |-> roamData,
         roamMin    |-> roamMin,
         neighbors  |-> matchNeighbors(t),
         expiration |-> IF includes(t, "remise permanente") \/ includes(t, "rabais permanent")
                        THEN "Remise permanente" ELSE "",
         engagement |-> IF includes(t, "sans engagement") THEN "Sans engagement" ELSE "",
         typeOffre  |-> IF isHome
                        THEN (IF tv = "280 Chaines" THEN HomeWithTV ELSE HomeNoTV)
                        ELSE Mobile ]

\* extractByRegex as it would be if an amount in Go came before the test for
\* unlimited roaming data
extractByRegex_amountFirst(text) ==
    LET t  == toLowerCase(cleanText(text))
        ex == regexFields(t)
    IN IF NumTailStarts(t, <<"go">>, {".", ","}) # {}
       THEN [ ex EXCEPT !.roamData = replaceFirst(NumTailGroup(t, <<"go">>, {".", ","}), ",", ".") ]
       ELSE ex

extractByRegex(text) == regexFields(toLowerCase(cleanText(text)))

-----------------------------------------------------------------------------
(* scrape.mjs: ensureUniqueRef (748-754), extractOfferFromPage (960-1041)  *)

\* ensureUniqueRef that hands the reference back without looking at the set
ensureUniqueRef_noTest(seen, ref) == ref

\* ensureUniqueRef that numbers the first duplicate 1
ensureUniqueRef_from1(seen, ref) ==
    LET loop[n \in 1..(Cardinality(seen) + 2)] == IF (ref \o "_" \o IntToString(n)) \in seen
                           THEN loop[n + 1] ELSE ref \o "_" \o IntToString(n)
    IN IF ref \in seen THEN loop[1] ELSE ref

\* ensureUniqueRef(ref) on the set seenRefs = seen: the value returned (the
\* caller adds it to the set); loop[n] is the while loop from r = ref_n
ensureUniqueRef(seen, ref) ==
    LET loop[n \in 1..(Cardinality(seen) + 2)] == IF (ref \o "_" \o IntToString(n)) \in seen
                           THEN loop[n + 1] ELSE ref \o "_" \o IntToString(n)
    IN IF ref \in seen THEN loop[2] ELSE ref

\* the first of the texts found by the fallback selectors that holds a number
RECURSIVE selectorPrice(_)
selectorPrice(raws) ==
    IF raws = <<>> THEN <<>>
    ELSE LET raw == cleanText(Head(raws))
             starts == { i \in 1..Len(raw) : IsDigit(CharAt(raw, i)) }
         IN IF starts # {} THEN <<parsePrice(NumAt(raw, Least(starts)))>>
            ELSE selectorPrice(Tail(raws))

\* new URL(url).hostname.includes(...)
operatorOf(url) ==
    IF includes(hostname(url), "yallo") THEN "Yallo"
    ELSE IF includes(hostname(url), "sunrise") THEN "Sunrise"
    ELSE "Op&rateur"

\* lines 965-972: the h1, else the og:title
pageTitle(page) ==
    IF cleanText(page.h1) # "" THEN cleanText(page.h1) ELSE cleanText(page.og)

\* lines 980-1002: the prices under the fallback selectors
withSelectorPrices(ex, page) ==
    [ ex EXCEPT
        !.priceNow = IF Truthy(ex.priceNow) THEN ex.priceNow ELSE selectorPrice(page.prices),
        !.priceOld = IF Truthy(ex.priceOld) THEN ex.priceOld ELSE selectorPrice(page.oldPrices) ]

\* the discount left as extractByRegex found it
withDiscount_asFound(ex) == ex

\* lines 1003-1005
withDiscount(ex) ==
    [ ex EXCEPT
        !.discount = IF ex.discount = "" /\ Truthy(ex.priceNow) /\ Truthy(ex.priceOld)
                     THEN discountOf(ex.priceNow[1], ex.priceOld[1]) ELSE ex.discount ]

\* lines 1008-1026: const row = {...}
buildRow(ex, op, title) ==
    Row("", op, IF title # "" THEN title ELSE "Offre",
        IF Truthy(ex.priceNow) THEN ex.priceNow ELSE <<>>,
        IF Truthy(ex.priceOld) THEN ex.priceOld ELSE <<>>,
        ex.discount, IF ex.tv # "" THEN ex.tv ELSE "Non", ex.speedMbps,
        ex.sms, ex.appels, ex.roamData, ex.roamMin, ex.neighbors,
        ex.typeOffre, ex.expiration, <<>>, ex.engagement)

\* lines 1029-1030: if (co2 !== null) row[...] = co2
withCO2(r, co2) == IF co2 # <<>> THEN [ r EXCEPT !.co2 = co2 ] ELSE r

estimated(r) == withCO2(r, calculateCO2(r))

\* the same steps with the estimate taken before canonicalize
offerRow_estimateFirst(page, url) ==
    canonicalize(
        estimated(buildRow(withDiscount(withSelectorPrices(extractByRegex(cleanText(page.body)), page)),
                           operatorOf(url), pageTitle(page))),
        cleanText(page.body))

\* the row of extractOfferFromPage before its reference is assigned (lines
\* 965-1030); page is what the browser shows at url: the h1, the og:title,
\* the body text and the texts under the price selectors
offerRow(page, url) ==
    estimated(canonicalize(
        buildRow(withDiscount(withSelectorPrices(extractByRegex(cleanText(page.body)), page)),
                 operatorOf(url), pageTitle(page)),
        cleanText(page.body)))

\* the base reference of that row
baseRef(r, url) == makeRef(r.operator, r.name, url, r.typeOffre)

\* the reference without the uniqueness step
withRef_base(r, base, seen) == [ r EXCEPT !.ref = base ]

\* lines 1032-1034
withRef(r, base, seen) == [ r EXCEPT !.ref = ensureUniqueRef(seen, base) ]

\* extractOfferFromPage(page, url) with seenRefs = seen: the row returned
extractOfferFromPage(page, url, seen) ==
    withRef(offerRow(page, url), baseRef(offerRow(page, url), url), seen)

-----------------------------------------------------------------------------
(* part_000: slugify, shortHash, generateReference                         *)

RECURSIVE StripLeading(_, _)
StripLeading(s, sep) ==
    IF s # "" /\ CharAt(s, 1) = sep THEN StripLeading(SubSeq(s, 2, Len(s)), sep) ELSE s

RECURSIVE StripTrailing(_, _)
StripTrailing(s, sep) ==
    IF s # "" /\ CharAt(s, Len(s)) = sep
    THEN StripTrailing(SubSeq(s, 1, Len(s) - 1), sep) ELSE s

slugify(str) ==
    toLowerCase(StripTrailing(StripLeading(CollapseRuns(str, "-", FALSE), "-"), "-"))

\* six lower-case hexadecimal digits of a number below 2^24
RECURSIVE HexLower(_, _)
HexLower(n, len) ==
    IF len = 0 THEN ""
    ELSE HexLower(n \div 16, len - 1) \o toLowerCase(CharAt(HexDigits, (n % 16) + 1))

\* the digest of shortHash, folded over the characters of s from d0
DigestLoop(d0, s) ==
    LET turn[d \in 0..16777215, i \in 1..(Len(s) + 1)] ==
            IF i > Len(s) THEN d
            ELSE turn[(d * 31 + charCode(CharAt(s, i))) % 16777216, i + 1]
    IN turn[d0, 1]

\* shortHash(s, 6): the first six hexadecimal digits of a digest of s. The
\* SHA-1 of node:crypto is replaced by a 24-bit digest of the same kind: a
\* function of every character of s and of nothing else.
shortHash(s) == HexLower(DigestLoop(7, s), 6)

\* generateReference({operator, name, price, ts}); price in hundredths, ts the
\* decimal digits of Date.now()
generateReference(operator, name, price, ts) ==
    LET sl   == slice0(slugify(name), 40)
        slug == IF sl = "" THEN "offre" ELSE sl
        p    == IntToString(price)
        h    == shortHash(operator \o "|" \o name \o "|" \o NumToString(price)
                          \o "|" \o slice0(ts, 10))
    IN toUpperCase("YALLO-" \o slug \o "-" \o p \o "-" \o h)

-----------------------------------------------------------------------------
(* part_000: the parsers (50-88) and parseYalloCard (260-327). A number    *)
(* that may be Infinity is [inf, v].                                       *)

textClean(s) == trim(collapseSpaces(s, FALSE))

\* s.replace(/\s/g, '')
RECURSIVE removeSpaces(_)
removeSpaces(s) ==
    IF s = "" THEN ""
    ELSE (IF IsSpace(CharAt(s, 1)) THEN "" ELSE CharAt(s, 1)) \o removeSpaces(SubSeq(s, 2, Len(s)))

DigitStarts(s) == { i \in 1..Len(s) : IsDigit(CharAt(s, i)) }

\* parsePriceCHF(s): the first number of the text, or null; the optional CHF
\* before and after the number leaves the captured group where it is
parsePriceOf(t) ==
    IF DigitStarts(t) = {} THEN <<>>
    ELSE <<parseFloat100(NumAtSep(t, Least(DigitStarts(t)), {"."}))>>

parsePriceCHF(s) ==
    IF s = "" THEN <<>> ELSE parsePriceOf(removeSpaces(replaceFirst(s, ",", ".")))

parsePercentOf(u) ==
    IF NumTailStarts(u, <<"%">>, {"."}) = {} THEN <<>>
    ELSE <<parseFloat100(NumTailGroup(u, <<"%">>, {"."}))>>

parsePercent(s) == IF s = "" THEN <<>> ELSE parsePercentOf(replaceFirst(s, ",", "."))

parseMbpsOf(t) ==
    IF NumTailStarts(t, <<"gbit/s">>, {"."}) # {}
    THEN <<MathRound100(parseFloat100(NumTailGroup(t, <<"gbit/s">>, {"."})) * 1000)>>
    ELSE IF NumTailStarts(t, <<"mbit/s">>, {"."}) # {}
    THEN <<MathRound100(parseFloat100(NumTailGroup(t, <<"mbit/s">>, {"."})))>>
    ELSE <<>>

\* parseMbpsFromSpeedText(s): an integer number of Mbit/s, or null
parseMbpsFromSpeedText(s) ==
    parseMbpsOf(collapseSpaces(replaceFirst(toLowerCase(s), ",", "."), FALSE))

Finite(v) == [ inf |-> FALSE, v |-> v ]
Infinity == [ inf |-> TRUE, v |-> 0 ]

parseDataGoOf(u) ==
    IF NumTailStarts(u, <<"go">>, {"."}) = {} THEN Finite(0)
    ELSE Finite(parseFloat100(NumTailGroup(u, <<"go">>, {"."})))

\* parseDataGo(s), in hundredths of a GB
parseDataGo(s) ==
    IF s = "" THEN Finite(0)
    ELSE IF includes(toLowerCase(s), "illimit") THEN Infinity
    ELSE parseDataGoOf(replaceFirst(toLowerCase(s), ",", "."))

parseMinutesOf(t) ==
    IF DigitsTailStarts(t, Len(t), <<"min">>) = {} THEN Finite(0)
    ELSE Finite(DigitsValue(DigitsTailGroup(t, Len(t), <<"min">>)))

\* parseMinutes(s), in minutes
parseMinutes(s) ==
    IF s = "" THEN Finite(0)
    ELSE IF includes(toLowerCase(s), "illimit") THEN Infinity
    ELSE parseMinutesOf(toLowerCase(s))

\* String(x) of such a number; hundredths tells the unit of v
InfToString(x, hundredths) ==
    IF x.inf THEN "Infinity"
    ELSE IF hundredths THEN NumToString(x.v) ELSE IntToString(x.v)

\* t.match(/HEAD(.+?)(TERM1|TERM2|...|$)/i): where group 1 starts and ends
\* (0, 0 when there is no match), found on the lowercased text lt
blockStart(lt, head) ==
    IF \E p \in 1..Len(lt) : MatchesAt(lt, p, head) /\ p + Len(head) <= Len(lt)
    THEN Least({ p \in 1..Len(lt) : MatchesAt(lt, p, head) /\ p + Len(head) <= Len(lt) })
         + Len(head)
    ELSE 0

blockEnd(lt, b, terms) ==
    Least({ e \in (b + 1)..(Len(lt) + 1) :
              e = Len(lt) + 1 \/ \E k \in 1..Len(terms) : MatchesAt(lt, e, terms[k]) }) - 1

\* group 1 as a piece of t, or otherwise when there is no match
blockOf(t, lt, head, terms, otherwise) ==
    IF blockStart(lt, head) = 0 THEN otherwise
    ELSE SubSeq(t, blockStart(lt, head), blockEnd(lt, blockStart(lt, head), terms))

\* t.split(/chf/i)[0]
beforeChf(t, lt) ==
    IF includes(lt, "chf")
    THEN SubSeq(t, 1, Least({ i \in 1..Len(lt) : MatchesAt(lt, i, "chf") }) - 1)
    ELSE t

\* the name: textClean has left neither a line break nor two spaces in t, so
\* the split of lines 266-267 gives one part at most, which find() or parts[0]
\* returns; "" stands for undefined
cardName(t, lt) == trim(beforeChf(t, lt))

\* lines 272-278: the number after "au lieu de", with or without "CH"/"CHF"
cardInitialPrice(lt) ==
    LET after == { SkipSpaces(lt, i + 10) : i \in { k \in 1..Len(lt) : MatchesAt(lt, k, "au lieu de") } }
        old1  == { j \in after : NumEnd(lt, j, {".", ","}) # 0 }
        afterCh(j) == SkipSpaces(lt, IF MatchesAt(lt, j, "chf") THEN j + 3 ELSE j + 2)
        old2  == { j \in after : MatchesAt(lt, j, "ch") /\ NumEnd(lt, afterCh(j), {".", ","}) # 0 }
        p1    == IF old1 = {} THEN <<>> ELSE <<parsePrice(NumAt(lt, Least(old1)))>>
    IN IF Truthy(p1) THEN p1
       ELSE IF old2 = {} THEN p1
       ELSE <<parsePrice(NumAt(lt, afterCh(Least(old2))))>>

\* lines 279-280; the percentage in hundredths
cardRabais(t, price, initialPrice) ==
    IF ~Truthy(parsePercent(t)) /\ Truthy(initialPrice) /\ Truthy(price)
    THEN <<100 * ((200 * (initialPrice[1] - price[1]) + initialPrice[1]) \div (2 * initialPrice[1]))>>
    ELSE parsePercent(t)

SuisseTerms == <<"itin&rance", "chf", "appels", "rabais", "$ saisir", "en savoir plus">>
AppelsTerms == <<"itin&rance", "chf", "rabais", "$ saisir", "en savoir plus">>
RoamTerms   == <<"chf", "$ saisir", "en savoir plus">>

\* lines 294-303
cardAppels(bloc) ==
    IF includes(toLowerCase(bloc), "illimit") THEN Sentinel
    ELSE IF parseMinutes(bloc).inf THEN Sentinel
    ELSE IF parseMinutes(bloc).v > 0 THEN IntToString(parseMinutes(bloc).v) \o " min."
    ELSE ""

\* titleCase(s): \b\w is the first of each run of ASCII letters and digits
RECURSIVE titleRuns(_, _)
titleRuns(s, inWord) ==
    IF s = "" THEN ""
    ELSE (IF IsAlnum(CharAt(s, 1)) /\ ~inWord THEN UpperChar(CharAt(s, 1)) ELSE CharAt(s, 1))
         \o titleRuns(SubSeq(s, 2, Len(s)), IsAlnum(CharAt(s, 1)) \/ CharAt(s, 1) = "_")

titleCase(s) == titleRuns(toLowerCase(s), FALSE)

\* end of the match at i of one alternative of the countries pattern, or 0
countriesEnd(bl, i, alt) ==
    LET lazy(head, tail) ==
          IF MatchesAt(bl, i, head)
               /\ \E e \in (i + Len(head))..Len(bl) : MatchesAt(bl, e, tail)
          THEN Least({ e \in (i + Len(head))..Len(bl) : MatchesAt(bl, e, tail) }) + Len(tail)
          ELSE 0
        plain(text) == IF MatchesAt(bl, i, text) THEN i + Len(text) ELSE 0
    IN CASE alt = 1 -> plain("pays voisins")
         [] alt = 2 -> lazy("europe", "tur")
         [] alt = 3 -> lazy("eu &largie", "pays")
         [] alt = 4 -> plain("8 pays les plus populaires")
         [] alt = 5 -> plain("fr, de, it, at, li")

\* lines 313-314
cardCountries(bloc) ==
    LET bl   == toLowerCase(bloc)
        hits == { <<i, a>> \in (1..Len(bl)) \X (1..5) : countriesEnd(bl, i, a) # 0 }
        first == CHOOSE h \in hits :
                    \A g \in hits : h[1] < g[1] \/ (h[1] = g[1] /\ h[2] <= g[2])
    IN IF hits # {}
       THEN titleCase(SubSeq(bloc, first[1], countriesEnd(bl, first[1], first[2]) - 1))
       ELSE IF includes(bl, "voisin") THEN "Pays voisins" ELSE ""

\* the fields of parseYalloCard for t = textClean(text) and its lowercase lt
cardFields(t, lt, name, price, initialPrice, roamBloc) ==
    [ name          |-> name,
      price         |-> price,
      initialPrice  |-> initialPrice,
      rabaisPct     |-> cardRabais(t, price, initialPrice),
      speedMbps     |-> parseMbpsFromSpeedText(blockOf(t, lt, "suisse", SuisseTerms, t)),
      appels        |-> cardAppels(blockOf(t, lt, "appels", AppelsTerms, "")),
      smsMms        |-> IF includes(toLowerCase(name), "start") \/ includes(toLowerCase(name), "d&but")
                        THEN "0,15CHF/SMS & 0,50CHF/MMS" ELSE Sentinel,
      roamDataGo    |-> parseDataGo(roamBloc),
      roamMinutes   |-> parseMinutes(roamBloc),
      roamCountries |-> cardCountries(roamBloc),
      isPermaDiscount |-> includes(lt, "rabais pour toujours") \/ includes(lt, "rabais permanent") ]

cardParse(t, lt) ==
    cardFields(t, lt, cardName(t, lt), parsePriceCHF(t), cardInitialPrice(lt),
               blockOf(t, lt, "itin&rance", RoamTerms, ""))

parseYalloCard(text) == cardParse(textClean(text), toLowerCase(textClean(text)))

-----------------------------------------------------------------------------
(* One offer, referenced once per run of the program, the runs at          *)
(* different times: makeRef (scrape.mjs 1032-1034) and generateReference   *)
(* (part_000 224-229, ts: Date.now()).                                     *)

\* the instants of the model, in milliseconds since the process started: the
\* first two are in the same second, the last is past MAX_RUNTIME_MIN
Clock == <<0, 999, 1000, 600001>>

\* n as d decimal digits
RECURSIVE Pad(_, _)
Pad(n, d) == IF d = 0 THEN "" ELSE Pad(n \div 10, d - 1) \o CharAt(Digits, (n % 10) + 1)

\* String(Date.now()) at ms milliseconds after a start at 1730000000000
dateNow(ms) == "1730000" \o Pad(ms \div 1000, 3) \o Pad(ms % 1000, 3)

MaxRuns == 2

OfferUrls == {"https://www.yallo.ch/fr/mobile", "https://www.yallo.ch/fr/mobile?promo=1",
              "https://www.yallo.ch/fr/home-5g"}
OfferPrices == {1290, 2500}

Offers ==
    [ operator : {"Yallo"}, title : Names, url : OfferUrls,
      typeOffre : {Mobile, HomeNoTV}, price : OfferPrices ]

RefInit ==
    /\ offer \in Offers
    /\ now = 1
    /\ refRuns = <<>>

\* time passes between two calls
Tick ==
    /\ now < Len(Clock)
    /\ now' = now + 1
    /\ UNCHANGED <<offer, refRuns>>

\* one run references the offer with both generators
ReferenceOffer ==
    /\ Len(refRuns) < MaxRuns
    /\ refRuns' = Append(refRuns,
          [ at |-> now,
            makeRef |-> makeRef(offer.operator, offer.title, offer.url, offer.typeOffre),
            generateReference |->
                generateReference(offer.operator, offer.title, offer.price, dateNow(Clock[now])) ])
    /\ UNCHANGED <<offer, now>>

RefIdle == offer = <<>> /\ now = 0 /\ refRuns = <<>>

\* C3: the base reference of an offer never depends on the time of the run: two
\* calls of makeRef, and two calls of generateReference, with the same offer
\* inputs at two different times return the same reference.
C3_TimeIndependent ==
    \A i, j \in 1..Len(refRuns) :
        /\ refRuns[i].makeRef = refRuns[j].makeRef
        /\ refRuns[i].generateReference = refRuns[j].generateReference

\* the half of C3 that is about makeRef
C3_MakeRefStable ==
    \A i, j \in 1..Len(refRuns) : refRuns[i].makeRef = refRuns[j].makeRef

-----------------------------------------------------------------------------
(* The pages of the model: what the browser shows at each URL. The first   *)
(* three URLs have the same path and the same title; the last page has     *)
(* neither an h1 nor an og:title.                                          *)

UrlMobile == "https://www.yallo.ch/fr/mobile"
UrlPromo  == "https://www.yallo.ch/fr/mobile?promo=1"
UrlTop    == "https://www.yallo.ch/fr/mobile#top"
UrlHome   == "https://www.sunrise.ch/fr/home-5g"
UrlBlank  == "https://www.yallo.ch/fr/offres"
UrlDear   == "https://www.yallo.ch/fr/mobile/max"
UrlHuge   == "https://www.yallo.ch/fr/mobile/fat"

UrlPool == <<UrlMobile, UrlPromo, UrlTop, UrlHome, UrlBlank, UrlDear, UrlHuge>>

Pages(url) ==
    CASE url = UrlMobile ->
           [ h1 |-> "Yallo Black", og |-> "",
             body |-> "Appels et SMS illimit&s CHF 25 au lieu de 50",
             prices |-> <<>>, oldPrices |-> <<>> ]
      [] url = UrlPromo ->
           [ h1 |-> " Yallo  Black ", og |-> "",
             body |-> "Appels et SMS illimit&s CHF 19.90",
             prices |-> <<>>, oldPrices |-> <<>> ]
      [] url = UrlTop ->
           [ h1 |-> "", og |-> "Yallo Black",
             body |-> "",
             prices |-> <<"", "d&s 25,50">>, oldPrices |-> <<"51.-">> ]
      [] url = UrlHome ->
           [ h1 |-> "Home 5G", og |-> "Sunrise",
             body |-> "TV 280 Cha^nes 10 Gbit/s 59.90 CHF",
             prices |-> <<>>, oldPrices |-> <<>> ]
      [] url = UrlBlank ->
           [ h1 |-> "", og |-> "",
             body |-> "Toutes les offres mobile",
             prices |-> <<>>, oldPrices |-> <<>> ]
      [] url = UrlDear ->
           [ h1 |-> "Yallo Max", og |-> "",
             body |-> "CHF 60 au lieu de 50 Sans engagement Pays voisins",
             prices |-> <<>>, oldPrices |-> <<>> ]
      [] url = UrlHuge ->
           [ h1 |-> "Yallo Fat", og |-> "",
             body |-> "Rabais 150 % CHF 10 par mois",
             prices |-> <<>>, oldPrices |-> <<>> ]

UrlSet == { UrlPool[i] : i \in 1..Len(UrlPool) }

\* The pages do not change during a run: the row that extractOfferFromPage
\* builds from each of them and its base reference, evaluated once.
rowAndBase(r, u) == [ row |-> r, base |-> baseRef(r, u) ]

PageOffer == [ u \in UrlSet |-> rowAndBase(offerRow(Pages(u), u), u) ]

\* extractOfferFromPage(page, url) for the page at url, with seenRefs = seen
extractOfferAt(url, seen) == withRef(PageOffer[url].row, PageOffer[url].base, seen)

-----------------------------------------------------------------------------
(* scrape.mjs: runWithPool (1044-1085) and the deduplication of main       *)
(* (1159-1165). A step of a worker is the code it runs between two awaits. *)

RETRIES == 2
CONCURRENCY == 4

MaxUrls == 4

\* the attempts that throw in one run are at most MaxThrown
MaxThrown == 2

Min(a, b) == IF a <= b THEN a ELSE b

\* the URLs that gatherCandidateURLs may return
PoolUrls == <<UrlMobile, UrlPromo, UrlTop, UrlHome>>

\* the lists of at most MaxUrls of these URLs, in the order of PoolUrls
RECURSIVE SubLists(_)
SubLists(list) ==
    IF list = <<>> THEN {<<>>}
    ELSE LET rest == SubLists(Tail(list))
         IN rest \cup { <<Head(list)>> \o l : l \in rest }

UrlLists == { l \in SubLists(PoolUrls) : Len(l) \in 1..MaxUrls }

PoolInit ==
    /\ urls \in UrlLists
    /\ index = 0
    /\ results = <<>>
    /\ ok = 0
    /\ ko = 0
    /\ seenRefs = {}
    /\ worker = [ w \in 1..Min(CONCURRENCY, Len(urls)) |->
                    [ pc |-> "newPage", my |-> 0, r |-> 0, lastErr |-> FALSE, row |-> <<>> ] ]
    /\ refOf = [ i \in 1..Len(urls) |-> "" ]
    /\ thrown = 0
    /\ finalRows = <<>>
    /\ mainPc = "pool"

\* the top of the while loop as it would be with const my = index - 1 after
\* the increment: the worker takes the URL before the one it counts
takeNext_same(w) ==
    /\ index' = index + 1
    /\ worker' = [ worker EXCEPT ![w] =
          IF index >= Len(urls)
          THEN [ pc |-> "close", my |-> 0, r |-> 0, lastErr |-> FALSE, row |-> <<>> ]
          ELSE [ pc |-> "page", my |-> Max(index, 1), r |-> 0, lastErr |-> FALSE, row |-> <<>> ] ]

\* the top of the while loop: const my = index++; if (my >= urls.length) break;
\* then the first attempt, up to the first await of extractOfferFromPage
takeNext(w) ==
    /\ index' = index + 1
    /\ worker' = [ worker EXCEPT ![w] =
          IF index >= Len(urls)
          THEN [ pc |-> "close", my |-> 0, r |-> 0, lastErr |-> FALSE, row |-> <<>> ]
          ELSE [ pc |-> "page", my |-> index + 1, r |-> 0, lastErr |-> FALSE, row |-> <<>> ] ]

\* the end of the for loop: if (lastErr) ko++, then the top of the while loop
leaveRetries(w) ==
    /\ ko' = IF worker[w].lastErr THEN ko + 1 ELSE ko
    /\ takeNext(w)

\* context.newPage() is resolved: the worker enters its loop
NewPage(w) ==
    /\ worker[w].pc = "newPage"
    /\ takeNext(w)
    /\ UNCHANGED <<urls, results, ok, ko, seenRefs, refOf, thrown, finalRows, mainPc>>

\* the page operations are resolved: the row is built and referenced (lines
\* 974-1034) up to await sleep(10)
Extract(w) ==
    /\ worker[w].pc = "page"
    /\ LET url == urls[worker[w].my]
           r   == extractOfferAt(url, seenRefs)
       IN /\ seenRefs' = seenRefs \cup {r.ref}
          /\ refOf' = [ refOf EXCEPT ![worker[w].my] = r.ref ]
          /\ worker' = [ worker EXCEPT ![w].pc = "sleep10", ![w].row = r ]
    /\ UNCHANGED <<urls, index, results, ok, ko, thrown, finalRows, mainPc>>

\* the attempt throws before the row is built: catch (e) { lastErr = e;
\* await sleep(300) }
RejectUpTo(w, most) ==
    /\ worker[w].pc = "page"
    /\ thrown < most
    /\ thrown' = thrown + 1
    /\ worker' = [ worker EXCEPT ![w].pc = "sleep300", ![w].lastErr = TRUE ]
    /\ UNCHANGED <<urls, index, results, ok, ko, seenRefs, refOf, finalRows, mainPc>>

Reject(w) == RejectUpTo(w, MaxThrown)

\* extractOfferFromPage returns: results.push(row); ok++; break
Push(w) ==
    /\ worker[w].pc = "sleep10"
    /\ IF worker[w].row.name # ""
       THEN /\ results' = Append(results, worker[w].row)
            /\ ok' = ok + 1
            /\ leaveRetries(w)
       ELSE /\ UNCHANGED <<results, ok>>
            /\ IF worker[w].r + 1 <= RETRIES
               THEN /\ worker' = [ worker EXCEPT ![w].pc = "page", ![w].r = @ + 1 ]
                    /\ UNCHANGED <<index, ko>>
               ELSE leaveRetries(w)
    /\ UNCHANGED <<urls, seenRefs, refOf, thrown, finalRows, mainPc>>

\* the retry as it would be without the bound r <= RETRIES
Retry_unbounded(w) ==
    /\ worker[w].pc = "sleep300"
    /\ worker' = [ worker EXCEPT ![w].pc = "page", ![w].r = @ + 1 ]
    /\ UNCHANGED <<urls, index, results, ok, ko, seenRefs, refOf, thrown, finalRows, mainPc>>

\* sleep(300) is over: r++, and the next attempt or the end of the for loop
Retry(w) ==
    /\ worker[w].pc = "sleep300"
    /\ IF worker[w].r + 1 <= RETRIES
       THEN /\ worker' = [ worker EXCEPT ![w].pc = "page", ![w].r = @ + 1 ]
            /\ UNCHANGED <<index, ko>>
       ELSE leaveRetries(w)
    /\ UNCHANGED <<urls, results, ok, seenRefs, refOf, thrown, finalRows, mainPc>>

\* page.close() is resolved: the worker's promise is fulfilled
Close(w) ==
    /\ worker[w].pc = "close"
    /\ worker' = [ worker EXCEPT ![w].pc = "done" ]
    /\ UNCHANGED <<urls, index, results, ok, ko, seenRefs, refOf, thrown, finalRows, mainPc>>

\* map.set(r.ref, r) on a Map kept as the list of its values
mapSet(map, r) ==
    IF \E i \in 1..Len(map) : map[i].ref = r.ref
    THEN [ map EXCEPT ![CHOOSE i \in 1..Len(map) : map[i].ref = r.ref] = r ]
    ELSE Append(map, r)

\* for (const r of rows) map.set(...); [...map.values()]
RECURSIVE dedupRows(_, _)
dedupRows(map, rs) ==
    IF rs = <<>> THEN map ELSE dedupRows(mapSet(map, Head(rs)), Tail(rs))

\* main after Promise.all and browser.close(): the deduplication by reference
Dedup ==
    /\ mainPc = "pool"
    /\ \A w \in DOMAIN worker : worker[w].pc = "done"
    /\ finalRows' = dedupRows(<<>>, results)
    /\ mainPc' = "written"
    /\ UNCHANGED <<urls, index, results, ok, ko, worker, seenRefs, refOf, thrown>>

PoolIdle ==
    /\ urls = <<>> /\ index = 0 /\ results = <<>> /\ ok = 0 /\ ko = 0
    /\ worker = <<>> /\ refOf = <<>> /\ thrown = 0 /\ finalRows = <<>> /\ mainPc = "idle"

-----------------------------------------------------------------------------
(* Repeated calls of extractOfferFromPage in one process                   *)

MaxCalls == 4

CallInit ==
    /\ calls = <<>>
    /\ seenRefs = {}

\* one call, on any of the pages
Call(url) ==
    /\ Len(calls) < MaxCalls
    /\ LET r == extractOfferAt(url, seenRefs)
       IN /\ seenRefs' = seenRefs \cup {r.ref}
          /\ calls' = Append(calls, [ url |-> url, row |-> r ])

CallIdle == calls = <<>>

-----------------------------------------------------------------------------
(* Claims about the references of the pool and of repeated calls *)

\* the reference X as it is, X_2, X_3, ...
Suffixed(base, n) == IF n = 1 THEN base ELSE base \o "_" \o IntToString(n)

\* the base references of the pages
Bases == { PageOffer[u].base : u \in UrlSet }

\* the set of the references of a list of rows
RefsOf(list) == { list[i].ref : i \in 1..Len(list) }

\* the workers that hold a referenced row not pushed yet
Pending == { w \in DOMAIN worker : worker[w].pc = "sleep10" }

\* C1: whatever the interleaving of the workers, the references of the rows
\* pushed into results are pairwise distinct, and so are the references of the
\* rows that workers hold between ensureUniqueRef and the push.
C1_DistinctRefs ==
    /\ \A i, j \in 1..Len(results) : i # j => results[i].ref # results[j].ref
    /\ \A w \in Pending : worker[w].row.ref \notin RefsOf(results)
    /\ \A v, w \in Pending : v # w => worker[v].row.ref # worker[w].row.ref

\* two rows of the same base reference, the suffixed one pushed first
C1_Witness ==
    \E i, j \in 1..Len(results) : i < j /\ results[i].ref = results[j].ref \o "_2"

\* every reference of seenRefs is a base X or X_n with n >= 2, and comes with
\* X and every X_m of a smaller suffix: the k-th call for X returned X_k
SuffixesInOrder ==
    \A r \in seenRefs :
        \E base \in Bases, n \in 1..Cardinality(seenRefs) :
            /\ r = Suffixed(base, n)
            /\ \A m \in 1..n : Suffixed(base, m) \in seenRefs

\* C2: the calls for one base reference X return X, X_2, X_3, ... in this
\* order, every returned value is in seenRefs, and every returned value (X
\* and X_2 among them) is the reference of a row written by main.
C2_AllReturnedWritten ==
    /\ SuffixesInOrder
    /\ \A i \in 1..Len(urls) : refOf[i] # "" => refOf[i] \in seenRefs
    /\ mainPc = "written" => seenRefs \subseteq RefsOf(finalRows)

\* main has written X and X_2
C2_Witness ==
    /\ mainPc = "written"
    /\ \E i, j \in 1..Len(finalRows) : finalRows[j].ref = Suffixed(finalRows[i].ref, 2)

\* n calls of ensureUniqueRef(base) in a row: the last reference and the set
RECURSIVE callsInARow(_, _, _)
callsInARow(base, seen, n) ==
    IF n = 1 THEN [ ref |-> ensureUniqueRef(seen, base),
                    seen |-> seen \cup {ensureUniqueRef(seen, base)} ]
    ELSE callsInARow(base, seen \cup {ensureUniqueRef(seen, base)}, n - 1)

\* the reference each URL ends with when one worker takes the URLs in the
\* order of the list and no attempt throws
RECURSIVE inOrderRefs(_, _)
inOrderRefs(list, seen) ==
    IF list = <<>> THEN <<>>
    ELSE LET o == PageOffer[Head(list)]
             c == callsInARow(o.base, seen, IF o.row.name = "" THEN RETRIES + 1 ELSE 1)
         IN <<c.ref>> \o inOrderRefs(Tail(list), c.seen)

\* C5: the reference a URL ends with is the same for every interleaving: it is
\* the one of the run where the URLs are served in the order of the list.
C5_SameForEveryInterleaving ==
    mainPc = "written" =>
        \A i \in 1..Len(urls) : refOf[i] # "" => refOf[i] = inOrderRefs(urls, {})[i]

\* the row of a call without its reference
WithoutRef(r) == [ r EXCEPT !.ref = "" ]

\* the references returned by the calls before the k-th
ReturnedBefore(k) == { calls[j].row.ref : j \in 1..(k - 1) }

\* base if it is not in seen, else base_n for the least n >= 2 not in seen
FreshRef(base, seen) ==
    IF base \notin seen THEN base
    ELSE Suffixed(base, Least({ n \in 2..(Cardinality(seen) + 2) : Suffixed(base, n) \notin seen }))

\* C4, as stated: the calls for one page and URL return the same row in every
\* field, the reference included, whatever calls were made before.
C4_IdenticalRows ==
    \A i, j \in 1..Len(calls) : calls[i].url = calls[j].url => calls[i].row = calls[j].row

\* C4, amended: the calls for one page and URL return the same row in every
\* field but the reference; the reference is the base reference if no earlier
\* call of the process returned it, else the base with the least suffix _n,
\* n >= 2, that no earlier call returned.
C4_SameButReference ==
    /\ \A i, j \in 1..Len(calls) :
           calls[i].url = calls[j].url => WithoutRef(calls[i].row) = WithoutRef(calls[j].row)
    /\ \A k \in 1..Len(calls) :
           calls[k].row.ref = FreshRef(PageOffer[calls[k].url].base, ReturnedBefore(k))

\* the same URL called twice, the second call returning the suffixed reference
C4_Witness ==
    \E i, j \in 1..Len(calls) :
        /\ i < j
        /\ calls[i].url = calls[j].url
        /\ calls[j].row.ref = calls[i].row.ref \o "_2"

-----------------------------------------------------------------------------
(* part_000: scrapeYalloMobile (178-257) and the writing of main (439-461) *)

MAX_PAGES_YALLO == 60
MAX_RUNTIME_MIN == 10

MaxCards == 3

CardTexts ==
    { "Yallo Black CHF 29.90 Suisse 300 Mbit/s",
      "Yallo Black CHF 29.90 Appels illimit&s",
      "Swiss Start CHF 10.- Suisse 2 Gbit/s",
      "Max CHF 35 Itin&rance illimit&e 60 min",
      "CHF 5 par mois" }

\* the lists of at most n card texts
RECURSIVE CardLists(_)
CardLists(n) ==
    IF n = 0 THEN {<<>>}
    ELSE CardLists(n - 1)
         \cup { Append(l, c) : l \in { k \in CardLists(n - 1) : Len(k) = n - 1 }, c \in CardTexts }

\* the cards do not change during a run: parseYalloCard of each, evaluated once
Parsed == [ c \in CardTexts |-> parseYalloCard(c) ]

\* the speed handed to calculateCO2: row[...] || 0
speedOrZero(speedMbps) == IF speedMbps = <<>> THEN 0 ELSE speedMbps[1]

\* lines 223-246: const row = {...}
yalloRowOf(parsed, ref) ==
    Row(ref, "Yallo", parsed.name, parsed.price, parsed.initialPrice,
        IF parsed.rabaisPct = <<>> THEN "" ELSE NumToString(parsed.rabaisPct[1]),
        "Non",
        IF parsed.speedMbps = <<>> THEN "" ELSE IntToString(parsed.speedMbps[1]),
        parsed.smsMms, parsed.appels,
        InfToString(parsed.roamDataGo, TRUE), InfToString(parsed.roamMinutes, FALSE),
        parsed.roamCountries, Mobile,
        IF parsed.isPermaDiscount THEN "Remise permanente" ELSE "",
        <<>>, "Sans engagement")

\* lines 247-250
yalloEstimated(r, speed) == [ r EXCEPT !.co2 = yalloCalculateCO2(r, speed) ]

\* the row of one card, built at the time ts
yalloRow(parsed, ts) ==
    yalloEstimated(
        yalloRowOf(parsed, generateReference("Yallo", parsed.name, parsed.price[1], ts)),
        speedOrZero(parsed.speedMbps))

\* hardStop(): the run has lasted more than MAX_RUNTIME_MIN
TimeIsUp == Clock[yNow] > MAX_RUNTIME_MIN * 60000

InLoop == yPc = "loop" /\ idx < Min(Len(cards), MAX_PAGES_YALLO)

YalloInit ==
    /\ cards \in CardLists(MaxCards)
    /\ idx = 0
    /\ rows = <<>>
    /\ yNow = 1
    /\ yPc = "loop"
    /\ csvRows = <<>>

\* time passes
YalloTick ==
    /\ yPc = "loop"
    /\ yNow < Len(Clock)
    /\ yNow' = yNow + 1
    /\ UNCHANGED <<cards, idx, rows, yPc, csvRows>>

\* one turn of the loop, lines 216-252
ScrapeCard ==
    /\ InLoop
    /\ ~TimeIsUp
    /\ idx' = idx + 1
    /\ rows' = IF Parsed[cards[idx + 1]].name = "" \/ ~Truthy(Parsed[cards[idx + 1]].price)
               THEN rows
               ELSE Append(rows, yalloRow(Parsed[cards[idx + 1]], dateNow(Clock[yNow])))
    /\ UNCHANGED <<cards, yNow, yPc, csvRows>>

\* hardStop() throws at the top of a turn: scrapeYalloMobile rejects
HardStop ==
    /\ InLoop
    /\ TimeIsUp
    /\ yPc' = "stopped"
    /\ UNCHANGED <<cards, idx, rows, yNow, csvRows>>

\* the loop is over: page.close(), return rows
YalloReturn ==
    /\ yPc = "loop"
    /\ ~InLoop
    /\ yPc' = "returned"
    /\ UNCHANGED <<cards, idx, rows, yNow, csvRows>>

\* main: rows.push(...y) or the catch, the finally, then the CSV is written
WriteCsv ==
    /\ yPc \in {"returned", "stopped"}
    /\ csvRows' = IF yPc = "returned" THEN rows ELSE <<>>
    /\ yPc' = "written"
    /\ UNCHANGED <<cards, idx, rows, yNow>>

YalloIdle ==
    /\ cards = <<>> /\ idx = 0 /\ rows = <<>> /\ yNow = 0 /\ yPc = "idle" /\ csvRows = <<>>

\* C6: the rows of scrapeYalloMobile, and the rows written to the CSV, have
\* pairwise distinct references.
C6_DistinctReferences ==
    /\ \A i, j \in 1..Len(rows) : i # j => rows[i].ref # rows[j].ref
    /\ \A i, j \in 1..Len(csvRows) : i # j => csvRows[i].ref # csvRows[j].ref

\* C8: a row without a speed is estimated as a row of a speed <= 300 is.
C8_EmptySpeedLowBase ==
    \A i \in 1..Len(rows) : rows[i].speed = "" => rows[i].co2 = yalloCalculateCO2(rows[i], 300)

\* the speed scrapeYalloMobile hands to calculateCO2 for a row it has built
rowSpeed(r) == DigitsValue(r.speed)

\* C11: a row whose roaming data is unlimited (the number Infinity) has an
\* estimate that holds the 18.3 of unlimited roaming: it is 18.3 above the
\* estimate of the same row without roaming data.
C11_UnlimitedRoamingCounted ==
    \A i \in 1..Len(rows) :
        rows[i].roamData = "Infinity" =>
            rows[i].co2[1] = yalloCalculateCO2([ rows[i] EXCEPT !.roamData = "" ], rowSpeed(rows[i]))[1] + 183

\* a field value that stands for an unlimited quantity: a text of one of the
\* source languages, or the number Infinity as String() writes it
RepresentsUnlimited(v) == IsUnlimitedText(v) \/ v = "Infinity"

UnlimitedIsSentinel(r) ==
    \A v \in {r.appels, r.sms, r.roamData, r.roamMin} : RepresentsUnlimited(v) => v = Sentinel

\* C12: in every emitted row, a quantity field that stands for unlimited holds
\* the sentinel exactly.
C12_UnlimitedIsSentinel ==
    /\ \A i \in 1..Len(rows) : UnlimitedIsSentinel(rows[i])
    /\ \A i \in 1..Len(csvRows) : UnlimitedIsSentinel(csvRows[i])
    /\ \A i \in 1..Len(results) : UnlimitedIsSentinel(results[i])
    /\ \A i \in 1..Len(finalRows) : UnlimitedIsSentinel(finalRows[i])

-----------------------------------------------------------------------------
(* scrape.mjs, the sitemap variant: toMbps (287-292), slugFromUrl          *)
(* (294-301), normRow (371-393) and run (490-547)                          *)

\* the text starts with a number as parseFloat reads one: -?\d+(\.\d+)?
StartsWithNumber(s) ==
    \/ s # "" /\ IsDigit(CharAt(s, 1))
    \/ Len(s) >= 2 /\ CharAt(s, 1) = "-" /\ IsDigit(CharAt(s, 2))

\* toMbps(numStr, unitGuess)
toMbps(numStr, unitGuess) ==
    IF numStr = "" THEN ""
    ELSE LET t == replaceFirst(numStr, ",", ".") IN
         IF ~StartsWithNumber(t) THEN ""
         ELSE LET n == parseFloat100(NumMatch(t, {"."})) IN
              IF includes(toLowerCase(unitGuess), "g")
              THEN IntToString(n * 10)
              ELSE IntToString(MathRound100(n))

\* the index of the last character of s[1..i] that is not "/" (0: none)
RECURSIVE LastNonSlash(_, _)
LastNonSlash(s, i) ==
    IF i = 0 \/ CharAt(s, i) # "/" THEN i ELSE LastNonSlash(s, i - 1)

\* the index of the last "/" of s[1..i] (0: none)
RECURSIVE LastSlash(_, _)
LastSlash(s, i) ==
    IF i = 0 \/ CharAt(s, i) = "/" THEN i ELSE LastSlash(s, i - 1)

\* path.split("/").filter(Boolean).pop() || ""
lastSegment(path) ==
    LET e == LastNonSlash(path, Len(path))
    IN IF e = 0 THEN "" ELSE SubSeq(path, LastSlash(path, e) + 1, e)

\* replace(/[^A-Z0-9]/g, "_"), character by character
RECURSIVE underscoreOthers(_)
underscoreOthers(s) ==
    IF s = "" THEN ""
    ELSE (IF IsAlnum(CharAt(s, 1)) THEN CharAt(s, 1) ELSE "_") \o underscoreOthers(SubSeq(s, 2, Len(s)))

\* slugFromUrl(u) for a URL that new URL() accepts
slugFromUrl(u) == slice0(underscoreOthers(toUpperCase(lastSegment(pathname(u)))), 40)

\* op.typeFromUrl(u, hasTV) of the four operators (lines 238-263)
typeFromUrl(operator, u, hasTV) ==
    LET home == CASE operator \in {"Yallo", "Sunrise"} -> includes(u, "home") \/ includes(u, "internet")
                  [] operator = "Salt" -> includes(u, "internet") \/ includes(u, "fiber")
                  [] OTHER -> includes(u, "internet") \/ includes(u, "tv")
    IN IF home THEN (IF hasTV THEN HomeWithTV ELSE HomeNoTV) ELSE Mobile

\* "Pays voisins inclus": countries || "Aucun"
normCountries(countries) == IF countries = "" THEN "Aucun" ELSE countries

\* the row of normRow before the estimate (lines 372-390); the price is a text
normFields(a) ==
    Row(a.ref, a.operator, a.title, a.price, "",
        IF a.discount # "" THEN a.discount \o "%" ELSE "",
        IF a.hasTV THEN "280 Chaines" ELSE "Non",
        toMbps(a.speedVal, a.speedUnit),
        a.smsCH, a.appelsCH,
        IF includes(toLowerCase(a.roamData), "illimit") THEN Sentinel ELSE a.roamData,
        IF includes(toLowerCase(a.roamMin), "illimit") THEN Sentinel ELSE a.roamMin,
        normCountries(a.countries), a.type, "", <<>>, "Sans engagement")

\* line 391: row[...] = estimateCO2(row)
normEstimated(r) == [ r EXCEPT !.co2 = <<estimateCO2(r)>> ]

normRow(a) == normEstimated(normFields(a))

\* What page.evaluate of extractFromPage (445-486) returns for the pages of
\* the model: title, price, discount, hasTV, speedVal, speedUnit, smsCH,
\* appelsCH, roamData, roamMin, countries.
Extracted(title, price, discount, hasTV, speedVal, speedUnit, smsCH, appelsCH, roamData, roamMin, countries) ==
    [ title |-> title, price |-> price, discount |-> discount, hasTV |-> hasTV,
      speedVal |-> speedVal, speedUnit |-> speedUnit, smsCH |-> smsCH, appelsCH |-> appelsCH,
      roamData |-> roamData, roamMin |-> roamMin, countries |-> countries ]

SitePage(operator, url) == [ operator |-> operator, url |-> url ]

SiteBlack == SitePage("Yallo", "https://www.yallo.ch/fr/mobile/black")
SiteFiber == SitePage("Yallo", "https://www.yallo.ch/fr/home/fiber")
SitePromo == SitePage("Yallo", "https://www.yallo.ch/fr/mobile/promo/black/")
SiteUp    == SitePage("Sunrise", "https://www.sunrise.ch/fr/mobile/up")
SiteSalt  == SitePage("Salt", "https://www.salt.ch/fr/mobile/black")

SitePages == <<SiteBlack, SiteFiber, SitePromo, SiteUp, SiteSalt>>

extractFromPage(p) ==
    CASE p = SiteBlack ->
           Extracted("Yallo Black", "29,90", "", FALSE, "300", "Mbit/s",
                     "Illimit&", "Illimit&", "Illimit&", "Illimit&", "")
      [] p = SiteFiber ->
           Extracted("Home Fiber", "45", "20", TRUE, "2", "Gbit/s", "", "", "", "", "")
      [] p = SitePromo ->
           Extracted("Yallo Black", "19.90", "", FALSE, "1,5", "Gbps",
                     "Illimit&", "", "5", "", "Pays voisins")
      [] p = SiteUp ->
           Extracted("Up", "", "", FALSE, "", "", "", "Illimit&", "0", "", "")
      [] p = SiteSalt ->
           Extracted("Black", "25", "", FALSE, "10", "Gbit/s", "", "", "", "", "FR, DE, IT, AT, LI")

\* lines 508-525: the argument of normRow for the page p
normArgs(p, d) ==
    [ ref |-> slugFromUrl(p.url), operator |-> p.operator, title |-> d.title,
      price |-> replaceFirst(d.price, ",", "."), discount |-> d.discount,
      hasTV |-> d.hasTV, speedVal |-> d.speedVal, speedUnit |-> d.speedUnit,
      smsCH |-> d.smsCH, appelsCH |-> d.appelsCH, roamData |-> d.roamData,
      roamMin |-> d.roamMin, countries |-> d.countries,
      type |-> typeFromUrl(p.operator, p.url, d.hasTV) ]

\* the pages do not change during a run: the row of each, evaluated once
SiteRow == [ p \in { SitePages[i] : i \in 1..Len(SitePages) } |-> normRow(normArgs(p, extractFromPage(p))) ]

MaxSample == 3

Samples == { l \in SubLists(SitePages) : Len(l) \in 1..MaxSample }

\* lines 534-541: the first row of each key, in the order of allRows
rowKey(r) == r.ref \o "|" \o r.operator \o "|" \o r.name

RECURSIVE firstOfEachKey(_, _)
firstOfEachKey(list, seen) ==
    IF list = <<>> THEN <<>>
    ELSE IF rowKey(Head(list)) \in seen THEN firstOfEachKey(Tail(list), seen)
    ELSE <<Head(list)>> \o firstOfEachKey(Tail(list), seen \cup {rowKey(Head(list))})

\* a.localeCompare(b) < 0 for the names of the operators
OperatorNames == <<"Salt", "Sunrise", "Swisscom", "Yallo">>
operatorRank(name) == CHOOSE i \in 1..Len(OperatorNames) : OperatorNames[i] = name

\* parseFloat(r[...]) || 99999, in hundredths
sortPrice(r) ==
    IF StartsWithNumber(r.price) /\ parseFloat100(NumMatch(r.price, {"."})) # 0
    THEN parseFloat100(NumMatch(r.price, {"."})) ELSE 9999900

\* the comparator of rows.sort is above 0: b goes before a
sortsAfter(a, b) ==
    IF operatorRank(a.operator) # operatorRank(b.operator)
    THEN operatorRank(a.operator) > operatorRank(b.operator)
    ELSE sortPrice(a) > sortPrice(b)

\* Array.prototype.sort is stable: r goes before the first row that sorts after it
RECURSIVE insertSorted(_, _)
insertSorted(list, r) ==
    IF list = <<>> THEN <<r>>
    ELSE IF sortsAfter(Head(list), r) THEN <<r>> \o list
    ELSE <<Head(list)>> \o insertSorted(Tail(list), r)

RECURSIVE sortRows(_, _)
sortRows(list, done) ==
    IF list = <<>> THEN done ELSE sortRows(Tail(list), insertSorted(done, Head(list)))

NormInit ==
    /\ sample \in Samples
    /\ nIdx = 0
    /\ allRows = <<>>
    /\ outRows = <<>>
    /\ nPc = "scan"

\* one turn of the loop: extractFromPage, normRow, allRows.push(row)
NormPage ==
    /\ nPc = "scan"
    /\ nIdx < Len(sample)
    /\ allRows' = Append(allRows, SiteRow[sample[nIdx + 1]])
    /\ nIdx' = nIdx + 1
    /\ UNCHANGED <<sample, outRows, nPc>>

\* extractFromPage throws (page.goto): the catch, and the next page
NormSkip ==
    /\ nPc = "scan"
    /\ nIdx < Len(sample)
    /\ nIdx' = nIdx + 1
    /\ UNCHANGED <<sample, allRows, outRows, nPc>>

\* after the loops: the deduplication, the sort and writeCSV
NormWrite ==
    /\ nPc = "scan"
    /\ nIdx = Len(sample)
    /\ outRows' = sortRows(firstOfEachKey(allRows, {}), <<>>)
    /\ nPc' = "written"
    /\ UNCHANGED <<sample, nIdx, allRows>>

NormIdle ==
    /\ sample = <<>> /\ nIdx = 0 /\ allRows = <<>> /\ outRows = <<>> /\ nPc = "idle"

-----------------------------------------------------------------------------
(* The estimate of the rows of both scrape.mjs pipelines                   *)

\* what extractByRegex finds in the text of each page, evaluated once
PageFields == [ u \in UrlSet |-> extractByRegex(cleanText(Pages(u).body)) ]

\* the rows extractOfferFromPage has returned that a worker still holds
HeldRows == { worker[w].row : w \in Pending }

PoolRows ==
    HeldRows \cup { results[i] : i \in 1..Len(results) } \cup { finalRows[i] : i \in 1..Len(finalRows) }

NormRows == { allRows[i] : i \in 1..Len(allRows) } \cup { outRows[i] : i \in 1..Len(outRows) }

\* C13: a run starts with no row, and every row that a step of either
\* pipeline brings in, held, returned, deduplicated or sorted, has as its CO2
\* field the estimator of that pipeline applied to the fields the row has
\* then: the estimate follows canonicalization, and the reference, the
\* deduplication and the sort change nothing it reads.
C13_CO2OfFinalFields ==
    [][ /\ \A r \in PoolRows' \ PoolRows : r.co2 = calculateCO2(r)
        /\ \A r \in NormRows' \ NormRows : r.co2 = <<estimateCO2(r)>> ]_vars

\* a written row whose category canonicalize has changed (extractByRegex
\* finds no home word in the page of UrlHome), estimated as Home with TV and
\* then given its reference
C13_Witness ==
    /\ mainPc = "written"
    /\ PageFields[UrlHome].typeOffre = Mobile
    /\ \E i \in 1..Len(finalRows) :
           /\ finalRows[i].typeOffre = HomeWithTV
           /\ finalRows[i].co2 = calculateCO2(finalRows[i])
           /\ finalRows[i].co2 # <<>>
           /\ finalRows[i].ref # ""

-----------------------------------------------------------------------------
(* The category canonicalize gives a row                                   *)

\* the home signal canonicalize looks for: in the page text, or in the
\* category the row came with
HomeSignal(r, text) == PageIsHome(toLowerCase(text)) \/ TypeIsHome(toLowerCase(r.typeOffre))

-----------------------------------------------------------------------------
(* The defaults of the rows extractOfferFromPage returns                   *)

\* C15: a row returned for a page in whose text no pattern of included
\* countries is found has "Aucun" as its included countries.
C15_NoCountriesIsAucun ==
    \A k \in 1..Len(calls) :
        PageFields[calls[k].url].neighbors = "" => calls[k].row.neighbors = "Aucun"

\* C16: a row returned for a page in whose text no contract term is found
\* has "Sans engagement" as its contract term.
C16_NoTermIsSansEngagement ==
    \A k \in 1..Len(calls) :
        PageFields[calls[k].url].engagement = "" => calls[k].row.engagement = "Sans engagement"

-----------------------------------------------------------------------------
(* The discount of the rows extractOfferFromPage returns                   *)

\* the pages whose text holds a percentage token: digits, then %
HasPercentToken == [ u \in UrlSet |-> DigitsTailStarts(toLowerCase(cleanText(Pages(u).body)), 3, <<"%">>) # {} ]

\* round((1 - now/old) * 100) for prices in hundredths: the integer d with
\* d - 1/2 <= 100 * (old - now) / old < d + 1/2
PercentOff(priceNow, priceOld) ==
    CHOOSE d \in -1000..100 :
        /\ (2 * d - 1) * priceOld <= 200 * (priceOld - priceNow)
        /\ 200 * (priceOld - priceNow) < (2 * d + 1) * priceOld

\* C17: a returned row with both prices, for a page without a percentage
\* token, has as discount round((1 - current/previous) * 100) of the prices
\* it holds, whether they come from the text or from the price selectors.
C17_DiscountFromPrices ==
    \A k \in 1..Len(calls) :
        LET r == calls[k].row IN
        (r.price # <<>> /\ r.priceOld # <<>> /\ ~HasPercentToken[calls[k].url]) =>
            r.discount = IntToString(PercentOff(r.price[1], r.priceOld[1]))

\* both cases: prices 25 and 50 from the text, and prices found only by the
\* selectors, each with the discount 50
C17_Witness ==
    /\ \E k \in 1..Len(calls) :
           /\ calls[k].url = UrlMobile
           /\ calls[k].row.price = <<2500>> /\ calls[k].row.priceOld = <<5000>>
           /\ calls[k].row.discount = "50"
    /\ \E k \in 1..Len(calls) :
           /\ calls[k].url = UrlTop
           /\ PageFields[UrlTop].priceNow = <<>> /\ PageFields[UrlTop].priceOld = <<>>
           /\ calls[k].row.price = <<2550>> /\ calls[k].row.priceOld = <<5100>>
           /\ calls[k].row.discount = "50"

\* the discount of a row is empty or an integer from 0 to 100
PercentTexts == {""} \cup { IntToString(n) : n \in 0..100 }

\* C18: the discount of every returned row is empty or an integer in 0..100.
C18_DiscountInRange ==
    \A k \in 1..Len(calls) : calls[k].row.discount \in PercentTexts

-----------------------------------------------------------------------------
(* The three speed conversions: toMbps (scrape.mjs 287-292), the speed     *)
(* step of canonicalize (809-815), parseMbpsFromSpeedText (part_000 66-73) *)

SpeedNumbers == {"", "2", "10", "300", "1,5", "2.5", "abc"}
GigabitUnits == {"Gbit/s", "Gbit", "Gbps"}
MegabitUnits == {"Mbit/s", "Mbit", "Mbps"}
SpeedSeps    == {"", " "}

\* the speed text a page shows for a value and a unit
speedText(value, sep, unit) == value \o sep \o unit

\* null as the empty result
orEmpty(n) == IF n = <<>> THEN "" ELSE IntToString(n[1])

SpeedInit ==
    /\ spValue \in SpeedNumbers
    /\ spUnit \in GigabitUnits \cup MegabitUnits
    /\ spSep \in SpeedSeps
    /\ spFn = ""
    /\ spOut = ""

\* normRow: toMbps(speedVal, speedUnit)
ConvertToMbps ==
    /\ spFn = ""
    /\ spOut' = toMbps(spValue, spUnit)
    /\ spFn' = "toMbps"
    /\ UNCHANGED <<spValue, spUnit, spSep>>

\* canonicalize on a row whose speed field is the speed text
ConvertCanonical ==
    /\ spFn = ""
    /\ spOut' = canonSpeed(speedText(spValue, spSep, spUnit))
    /\ spFn' = "canonicalize"
    /\ UNCHANGED <<spValue, spUnit, spSep>>

\* parseYalloCard: parseMbpsFromSpeedText(bloc)
ConvertSpeedText ==
    /\ spFn = ""
    /\ spOut' = orEmpty(parseMbpsFromSpeedText(speedText(spValue, spSep, spUnit)))
    /\ spFn' = "parseMbpsFromSpeedText"
    /\ UNCHANGED <<spValue, spUnit, spSep>>

SpeedIdle == spValue = "" /\ spUnit = "" /\ spSep = "" /\ spFn = "idle" /\ spOut = ""

\* a number and nothing else: digits, with at most one separator inside
IsNumberText(v) == v # "" /\ NumStart(v) = 1 /\ NumMatch(v, {".", ","}) = v

\* the integer number of Mbit/s for a value and a unit, "" for no number
MbpsOf(value, unit) ==
    IF ~IsNumberText(value) THEN ""
    ELSE LET h == parseFloat100(replaceFirst(value, ",", "."))
         IN IntToString(MathRound100(IF unit \in GigabitUnits THEN h * 1000 ELSE h))

\* C19: each conversion gives round(v * 1000) for a gigabit unit, round(v)
\* for a megabit unit and nothing for an empty or non-numeric value.
C19_SpeedToMbps ==
    spFn \in {"toMbps", "canonicalize", "parseMbpsFromSpeedText"} => spOut = MbpsOf(spValue, spUnit)

-----------------------------------------------------------------------------
(* toCSV of scrape.mjs (692-715), csvEscape and toCSV of part_000 (134-167) *)

QuoteQuote == "\"\""
Quote   == SubSeq(QuoteQuote, 1, 1)
NewLine == "\n"

\* the field of the model's rows under each name of HEADERS, in its order
Columns ==
    <<"ref", "operator", "name", "price", "priceOld", "discount", "tv", "speed", "sms",
      "appels", "roamData", "roamMin", "neighbors", "typeOffre", "expiration", "co2",
      "engagement">>

\* HEADERS.join(',')
HeaderLine ==
    "R&f&rence de l'offre,Op&rateur,Nom de l'offre,Prix CHF/mois,Prix initial CHF,"
    \o "Rabais (%),TV,Rapidit& r&seau Mbps,SMS & MMS (Suisse),Appels en Suisse ( Heure ),"
    \o "Donn&es en itin&rance (Go),Minutes roaming ( Heure ),Pays voisins inclus,"
    \o "Type offre,Expiration,~@mission de CO2 (kg/an),Dur&e d'engagement"

\* String(v ?? '') of the value under a column: the prices are numbers in
\* hundredths or nothing, the estimate is a number in tenths or nothing
cellText(r, col) ==
    IF col \in {"price", "priceOld"} THEN (IF r[col] = <<>> THEN "" ELSE NumToString(r[col][1]))
    ELSE IF col = "co2" THEN (IF r[col] = <<>> THEN "" ELSE NumToString(r[col][1] * 10))
    ELSE r[col]

\* s.replace(/"/g, '""')
RECURSIVE doubleQuotes(_)
doubleQuotes(s) ==
    IF s = "" THEN ""
    ELSE (IF CharAt(s, 1) = Quote THEN QuoteQuote ELSE CharAt(s, 1))
         \o doubleQuotes(SubSeq(s, 2, Len(s)))

\* /[",\n]/.test(s)
HasSpecial(s) == includes(s, ",") \/ includes(s, Quote) \/ includes(s, NewLine)

\* csvEsc of the sitemap variant (scrape.mjs 275): every value quoted
csvEsc(s) == Quote \o doubleQuotes(s) \o Quote

\* the callback of HEADERS.map in toCSV (scrape.mjs 709-714)
csvField(s) ==
    LET d == doubleQuotes(s) IN IF HasSpecial(d) THEN Quote \o d \o Quote ELSE d

\* csvEscape(v) of part_000 (152-158)
csvEscape(s) ==
    IF HasSpecial(s) THEN Quote \o doubleQuotes(s) \o Quote ELSE s

\* Array.prototype.join
RECURSIVE join(_, _)
join(list, sep) ==
    IF list = <<>> THEN ""
    ELSE IF Len(list) = 1 THEN list[1]
    ELSE list[1] \o sep \o join(Tail(list), sep)

\* toCSV(rows) of scrape.mjs
toCSV(list) ==
    join(<<HeaderLine>> \o [ i \in 1..Len(list) |->
            join([ c \in 1..Len(Columns) |-> csvField(cellText(list[i], Columns[c])) ], ",") ],
         NewLine)

\* toCSV(rows) of part_000
yalloToCSV(list) ==
    join(<<HeaderLine>> \o [ i \in 1..Len(list) |->
            join([ c \in 1..Len(Columns) |-> csvEscape(cellText(list[i], Columns[c])) ], ",") ],
         NewLine)

CsvNames == {"Black", "Offer, " \o Quote \o "Black" \o Quote \o " edition",
             "Two" \o NewLine \o "lines", Quote \o "Max" \o Quote}
CsvCountries == {"", "FR, DE"}
CsvPrices == {<<>>, <<1990>>}

CsvRowSet ==
    { Row("R1", "Yallo", nm, pr, <<>>, "", "Non", "", "", Sentinel, "", "", co, Mobile, "", <<135>>, "") :
        nm \in CsvNames, co \in CsvCountries, pr \in CsvPrices }

MaxCsvRows == 2

RECURSIVE ListsOf(_, _)
ListsOf(S, n) ==
    IF n = 0 THEN {<<>>}
    ELSE ListsOf(S, n - 1) \cup { Append(l, x) : l \in { m \in ListsOf(S, n - 1) : Len(m) = n - 1 }, x \in S }

CsvInit ==
    /\ csvIn \in ListsOf(CsvRowSet, MaxCsvRows)
    /\ csvFn = ""
    /\ csvText = ""

\* main of scrape.mjs: const outCSV = toCSV(finalRows)
SerializeRows ==
    /\ csvFn = ""
    /\ csvText' = toCSV(csvIn)
    /\ csvFn' = "scrape.mjs"
    /\ UNCHANGED csvIn

\* main of part_000: const csv = toCSV(rows)
SerializeYalloRows ==
    /\ csvFn = ""
    /\ csvText' = yalloToCSV(csvIn)
    /\ csvFn' = "part_000"
    /\ UNCHANGED csvIn

CsvIdle == csvIn = <<>> /\ csvFn = "idle" /\ csvText = ""

\* Reading a CSV text back: a comma or a newline separates when an even
\* number of double quotes stands before it.
OutsideAt(t, c) ==
    LET quotes == { j \in 1..Len(t) : CharAt(t, j) = Quote }
    IN { i \in 1..Len(t) : CharAt(t, i) = c /\ Cardinality({ q \in quotes : q < i }) % 2 = 0 }

\* the pieces of t between the separators c that stand outside quotes
splitOutside(t, c) ==
    LET seps == OutsideAt(t, c)
        n    == Cardinality(seps)
        pos[k \in 0..(n + 1)] ==
            IF k = 0 THEN 0
            ELSE IF k = n + 1 THEN Len(t) + 1
            ELSE CHOOSE x \in seps : Cardinality({ u \in seps : u < x }) = k - 1
    IN [ k \in 1..(n + 1) |-> SubSeq(t, pos[k - 1] + 1, pos[k] - 1) ]

\* the lines of a CSV text after its header line, each cut into its fields
DataLines(text) ==
    IF Len(text) <= Len(HeaderLine) + 1 THEN <<>>
    ELSE LET lines == splitOutside(SubSeq(text, Len(HeaderLine) + 2, Len(text)), NewLine)
         IN [ i \in 1..Len(lines) |-> splitOutside(lines[i], ",") ]

\* a value as the claim writes it: wrapped in double quotes with the inner
\* quotes doubled when it holds a comma, a double quote or a newline
Written(s) == IF HasSpecial(s) THEN Quote \o doubleQuotes(s) \o Quote ELSE s

\* C20: the text of either toCSV starts with the header line; read back, it
\* has one data line for each row, and each holds the 17 values of the row
\* in the order of the header, a value with a comma, a double quote or a
\* newline wrapped in double quotes with its quotes doubled, any other value
\* as it is.
C20_CsvQuoting ==
    csvFn \in {"scrape.mjs", "part_000"} =>
        /\ SubSeq(csvText, 1, Len(HeaderLine)) = HeaderLine
        /\ (csvIn # <<>> => SubSeq(csvText, Len(HeaderLine) + 1, Len(HeaderLine) + 1) = NewLine)
        /\ DataLines(csvText) =
             [ i \in 1..Len(csvIn) |-> [ c \in 1..17 |-> Written(cellText(csvIn[i], Columns[c])) ] ]

\* the example of the claim, after a row with a name of two lines
C20_Witness ==
    /\ csvFn = "scrape.mjs"
    /\ Len(csvIn) = 2
    /\ csvIn[1].name = "Two" \o NewLine \o "lines"
    /\ csvIn[2].name = "Offer, " \o Quote \o "Black" \o Quote \o " edition"
    /\ DataLines(csvText)[2][3] =
         Quote \o "Offer, " \o QuoteQuote \o "Black" \o QuoteQuote \o " edition" \o Quote

-----------------------------------------------------------------------------
(* The main routines and their Airtable loops: main (1137-1176) with       *)
(* pushAirtable (1088-1135) and run (489-640) of scrape.mjs, the main      *)
(* routine (415-468) with upsertAirtable (392-404) of part_000. A step is  *)
(* the code run between two awaits; the rows are counted, not held.        *)

\* const chunk = 10 of pushAirtable, chunk(records, 10) of run
chunk == 10
\* const BATCH = 10 of upsertAirtable
BATCH == 10

MaxPushRows == 21

Variants == {"main", "run", "part_000"}

\* the secrets of the environment: none, AIRTABLE_TOKEN alone, or the token
\* with AIRTABLE_BASE and AIRTABLE_TABLE
Secrets == {"none", "token", "all"}

\* the awaited call that rejects in this execution, if any; hardStop() is
\* called by part_000 alone
FaultsOf(v) ==
    {"none", "launch", "context", "route", "scrape"} \cup (IF v = "part_000" THEN {"hardStop"} ELSE {})

\* the store accepts the batch, answers with a status that is not ok, or the
\* request itself rejects
Answers == {"ok", "rejected", "thrown"}

SinkInit ==
    /\ variant \in Variants
    /\ secrets \in Secrets
    /\ fault \in FaultsOf(variant)
    /\ yield \in 0..MaxPushRows
    /\ sinkRows = 0
    /\ file = <<>>
    /\ sent = <<>>
    /\ logs = <<>>
    /\ exitCode = <<>>
    /\ sinkPc = "launch"

\* the routine returns: the process ends with code 0
returns(lines) ==
    /\ logs' = logs \o lines
    /\ exitCode' = <<0>>
    /\ sinkPc' = "end"

\* the promise of the routine rejects: .catch(e => { console.error(...);
\* process.exit(1) })
fatal(lines) ==
    /\ logs' = logs \o lines \o << CASE variant = "main" -> "Fatal:"
                                    [] variant = "run" -> "Run failed:"
                                    [] OTHER -> "[FATAL]" >>
    /\ exitCode' = <<1>>
    /\ sinkPc' = "end"

\* chromium.launch, browser.newContext, then context.route (ctx.newPage in
\* run): none of them is inside a try
Setup ==
    /\ sinkPc \in {"launch", "context", "route"}
    /\ IF fault = sinkPc
       THEN fatal(<<>>)
       ELSE /\ sinkPc' = CASE sinkPc = "launch" -> "context"
                           [] sinkPc = "context" -> "route"
                           [] OTHER -> "scrape"
            /\ UNCHANGED <<logs, exitCode>>
    /\ UNCHANGED <<variant, secrets, fault, yield, sinkRows, file, sent>>

\* main: const rows = await runWithPool(context, urls); await browser.close()
\* and the deduplication; run: the loops over the operators
ScrapeMain ==
    /\ sinkPc = "scrape"
    /\ variant \in {"main", "run"}
    /\ IF fault = "scrape"
       THEN fatal(<<>>) /\ UNCHANGED sinkRows
       ELSE /\ sinkRows' = yield
            /\ sinkPc' = "write"
            /\ UNCHANGED <<logs, exitCode>>
    /\ UNCHANGED <<variant, secrets, fault, yield, file, sent>>

\* part_000: try { hardStop(); rows.push(...await scrapeYalloMobile(context)) }
\* catch (e) { console.error(...) } finally { close }
ScrapePart ==
    /\ sinkPc = "scrape"
    /\ variant = "part_000"
    /\ sinkRows' = IF fault \in {"hardStop", "scrape"} THEN 0 ELSE yield
    /\ logs' = CASE fault = "hardStop" -> Append(logs, "[HARD-STOP]")
                 [] fault = "scrape" -> Append(logs, "[ERROR]")
                 [] OTHER -> logs
    /\ sinkPc' = "write"
    /\ UNCHANGED <<variant, secrets, fault, yield, file, sent, exitCode>>

\* the request for the rows from i on is sent; its answer is awaited
request(i, size) == [ from |-> i, size |-> Min(size, sinkRows - i), answer |-> "pending" ]

\* the store's answer to the request in flight
answered(a) == [ sent EXCEPT ![Len(sent)].answer = a ]

\* for (let i = 0; i < rows.length; i += chunk) of pushAirtable, from i on,
\* up to the next await
pushFrom(batches, i, lines) ==
    IF i < sinkRows
    THEN /\ sent' = Append(batches, request(i, chunk))
         /\ logs' = logs \o lines
         /\ sinkPc' = "fetch"
         /\ UNCHANGED exitCode
    ELSE /\ sent' = batches
         /\ returns(lines \o <<"Airtable mis $ jour.">>)

\* the same loop, as it would be if a rejected batch did not end it
RespondPushAirtable_goesOn(a) ==
    /\ sinkPc = "fetch"
    /\ variant = "main"
    /\ pushFrom(answered(a), sent[Len(sent)].from + chunk,
                IF a = "ok" THEN <<>> ELSE <<"Airtable:">>)
    /\ UNCHANGED <<variant, secrets, fault, yield, sinkRows, file>>

\* pushAirtable after await fetch: if (!res.ok) throw, caught by main:
\* try { await pushAirtable(finalRows) } catch (e) { log('Airtable:', e.message) }
RespondPushAirtable(a) ==
    /\ sinkPc = "fetch"
    /\ variant = "main"
    /\ IF a = "ok"
       THEN pushFrom(answered(a), sent[Len(sent)].from + chunk, <<>>)
       ELSE /\ sent' = answered(a)
            /\ returns(<<"Airtable:">>)
    /\ UNCHANGED <<variant, secrets, fault, yield, sinkRows, file>>

\* run after await fetch: if (!res.ok) { console.error("Airtable error:", txt);
\* throw } and await sleep(300); the throw reaches run().catch
RespondRun(a) ==
    /\ sinkPc = "fetch"
    /\ variant = "run"
    /\ CASE a = "ok" -> pushFrom(answered(a), sent[Len(sent)].from + chunk, <<>>)
         [] a = "rejected" -> (sent' = answered(a) /\ fatal(<<"Airtable error:">>))
         [] OTHER -> (sent' = answered(a) /\ fatal(<<>>))
    /\ UNCHANGED <<variant, secrets, fault, yield, sinkRows, file>>

\* for (let i = 0; i < rows.length; i += BATCH) of upsertAirtable, from i on
upsertFrom(batches, i, lines) ==
    IF i < sinkRows
    THEN /\ sent' = Append(batches, request(i, BATCH))
         /\ logs' = logs \o lines
         /\ sinkPc' = "fetch"
         /\ UNCHANGED exitCode
    ELSE /\ sent' = batches
         /\ returns(lines)

\* upsertAirtable after await fetch: if (!res.ok) console.error(...), or
\* catch (e) { console.error(...) }, then the next turn of the loop
RespondUpsert(a) ==
    /\ sinkPc = "fetch"
    /\ variant = "part_000"
    /\ upsertFrom(answered(a), sent[Len(sent)].from + BATCH,
                  CASE a = "ok" -> <<>>
                    [] a = "rejected" -> <<"[Airtable] POST">>
                    [] OTHER -> <<"[Airtable] Exception:">>)
    /\ UNCHANGED <<variant, secrets, fault, yield, sinkRows, file>>

\* main as it would be if the first request left before the file is written
WriteMain_pushFirst ==
    /\ sinkPc = "write"
    /\ variant = "main"
    /\ IF secrets # "all"
       THEN file' = <<sinkRows>> /\ returns(<<"offres", "skip">>) /\ UNCHANGED sent
       ELSE file' = file /\ pushFrom(sent, 0, <<"offres">>)
    /\ UNCHANGED <<variant, secrets, fault, yield, sinkRows>>

\* main: await fs.writeFile(outPath, outCSV, 'utf8') is resolved, then
\* pushAirtable up to its first await
WriteMain ==
    /\ sinkPc = "write"
    /\ variant = "main"
    /\ file' = <<sinkRows>>
    /\ IF secrets # "all"
       THEN returns(<<"offres", "skip">>) /\ UNCHANGED sent
       ELSE pushFrom(sent, 0, <<"offres">>)
    /\ UNCHANGED <<variant, secrets, fault, yield, sinkRows>>

\* run: await writeCSV(rows, outPath) is resolved, then the push up to its
\* first await
WriteRun ==
    /\ sinkPc = "write"
    /\ variant = "run"
    /\ file' = <<sinkRows>>
    /\ IF secrets # "all"
       THEN returns(<<"offres", "skip push">>) /\ UNCHANGED sent
       ELSE pushFrom(sent, 0, <<"offres", "Push vers Airtable">>)
    /\ UNCHANGED <<variant, secrets, fault, yield, sinkRows>>

\* part_000: fs.writeFileSync(OUT_CSV, csv), then
\* if (rows.length && AIRTABLE_TOKEN) await upsertAirtable(rows)
WritePart ==
    /\ sinkPc = "write"
    /\ variant = "part_000"
    /\ file' = <<sinkRows>>
    /\ IF sinkRows # 0 /\ secrets = "all"
       THEN upsertFrom(sent, 0, <<"[OK]">>)
       ELSE returns(<<"[OK]">>) /\ UNCHANGED sent
    /\ UNCHANGED <<variant, secrets, fault, yield, sinkRows>>

SinkIdle ==
    /\ variant = "" /\ secrets = "" /\ fault = "" /\ yield = 0 /\ sinkRows = 0
    /\ file = <<>> /\ sent = <<>> /\ logs = <<>> /\ exitCode = <<>> /\ sinkPc = "idle"

-----------------------------------------------------------------------------
(* Claims about the Airtable loops and the CSV file of the main routines   *)

\* the batches that the store did not accept
Failed == { k \in 1..Len(sent) : sent[k].answer \in {"rejected", "thrown"} }

\* the last line logged
lastLog == logs[Len(logs)]

\* C21: in pushAirtable under main and in the Airtable loop of run, a batch
\* that the store rejects (or whose request throws) is the last batch sent in
\* that execution, whatever the number of rows and the index of the batch, and
\* the failure is reported: main's catch logs it, run().catch logs it and the
\* process exits with code 1.
C21_PushStopsAtFailure ==
    variant \in {"main", "run"} =>
        /\ \A k \in Failed : k = Len(sent)
        /\ Failed # {} =>
              /\ sinkPc = "end"
              /\ IF variant = "main"
                 THEN lastLog = "Airtable:"
                 ELSE lastLog = "Run failed:" /\ exitCode = <<1>>

C21_Witness ==
    /\ variant = "main"
    /\ sinkRows > 2 * chunk
    /\ Len(sent) = 2
    /\ sent[2].answer = "rejected"
    /\ sinkPc = "end"

\* C22: in upsertAirtable of part_000, a batch that the store rejects (or whose
\* request throws) is the last batch sent in that execution, and the failure
\* reaches the caller: the main routine's promise rejects.
C22_UpsertStopsAtFailure ==
    variant = "part_000" =>
        /\ \A k \in Failed : k = Len(sent)
        /\ Failed # {} /\ sinkPc = "end" => exitCode = <<1>>

\* C23: in every main routine the CSV file holds all the rows before the first
\* request to the store is sent, and no step taken once a request has been
\* sent writes the file: after a failed push it is what it was before the push.
C23_CsvBeforePushAndKept ==
    /\ [](sent # <<>> => file = <<sinkRows>>)
    /\ [][sent # <<>> => file' = file]_vars

C23_Witness ==
    /\ variant = "run"
    /\ sinkRows > chunk
    /\ Failed = {2}
    /\ sinkPc = "end"
    /\ file = <<sinkRows>>

\* C24: every execution of the main routine of part_000 that has ended has
\* written a CSV file (the header line at least), on every path: scrape done,
\* scrape error, hard stop, and failure of the browser launch, of the context
\* creation or of the route installation.
C24_CsvWrittenOnEveryPath ==
    variant = "part_000" /\ sinkPc = "end" => file # <<>>

-----------------------------------------------------------------------------
(* runWithPool observed: for each URL index, how often it was claimed      *)
(* (const my = index++), how often extractOfferFromPage was called for it  *)
(* and how many rows results.push received for it                          *)

MaxAuditUrls == 2

\* the attempts that throw in one observed run are at most MaxAuditThrown
MaxAuditThrown == 3

AuditInit ==
    /\ Len(urls) <= MaxAuditUrls
    /\ tally = [ i \in 1..Len(urls) |-> [ claimed |-> 0, tried |-> 0, rows |-> 0 ] ]

\* what the step of worker w adds to the tally: a row pushed for the URL it
\* was at, an index claimed, a call of extractOfferFromPage begun
Observe(w) ==
    LET old == worker[w]
        new == worker'[w]
        t1 == IF Len(results') > Len(results)
              THEN [ tally EXCEPT ![old.my].rows = @ + 1 ] ELSE tally
        t2 == IF index' # index /\ new.pc = "page"
              THEN [ t1 EXCEPT ![new.my].claimed = @ + 1 ] ELSE t1
    IN tally' = IF new.pc = "page" THEN [ t2 EXCEPT ![new.my].tried = @ + 1 ] ELSE t2

AuditIdle == tally = <<>>

\* await Promise.all(workers) is resolved
AllDone == \A w \in DOMAIN worker : worker[w].pc = "done"

\* the sum of f[i] over the indexes of f
RECURSIVE SumTo(_, _)
SumTo(f, n) == IF n = 0 THEN 0 ELSE f[n] + SumTo(f, n - 1)

\* the calls of extractOfferFromPage so far
TotalTried == SumTo([ i \in DOMAIN tally |-> tally[i].tried ], Len(tally))

\* C25: for every interleaving of the workers, each URL index is claimed by at
\* most one worker and the indexes are claimed without a gap; when all the
\* workers are done every URL was claimed exactly once and attempted at least
\* once; a URL is attempted at most RETRIES + 1 = 3 times and contributes at
\* most one row to results.
C25_ClaimedOnceTriedUpTo3 ==
    /\ \A i \in DOMAIN tally :
          /\ tally[i].claimed = (IF i <= index THEN 1 ELSE 0)
          /\ tally[i].tried <= RETRIES + 1
          /\ tally[i].tried <= 3
          /\ tally[i].claimed = 1 => tally[i].tried >= 1
          /\ tally[i].rows <= 1
    /\ \A v, w \in DOMAIN worker :
          v # w /\ worker[v].my # 0 /\ worker[w].my # 0 => worker[v].my # worker[w].my
    /\ AllDone => \A i \in DOMAIN tally : tally[i].claimed = 1

C25_Witness ==
    /\ AllDone
    /\ Len(urls) = MaxAuditUrls
    /\ \E i \in DOMAIN tally : tally[i].tried = 3 /\ tally[i].rows = 1
    /\ \E i \in DOMAIN tally : tally[i].tried = 1 /\ tally[i].rows = 1

\* C26: provided every awaited step of a worker is eventually resolved (every
\* extraction attempt ends, by a row or by an error), runWithPool terminates
\* for every URL list: all the workers eventually leave their loop, all the
\* URLs have then been claimed, and extractOfferFromPage is never called more
\* than 3 times the number of URLs.
C26_PoolTerminates ==
    /\ <>AllDone
    /\ [](AllDone => index >= Len(urls) /\ \A i \in DOMAIN tally : tally[i].claimed = 1)
    /\ [](TotalTried <= 3 * Len(urls))

C26_Witness ==
    /\ AllDone
    /\ TotalTried = 3 * Len(urls)
    /\ ko = 1

-----------------------------------------------------------------------------
(* scrape.mjs: the steps extractByRegex -> canonicalize -> calculateCO2 of *)
(* extractOfferFromPage (977-1030) on page texts about roaming             *)

\* a page text is one part of each kind, with spaces between them
RoamWords == {"", "Roaming", "Itin&rance"}
RoamParts == {"", "illimit&", "5 Go", "1,5 Go illimit&", "60 min roaming", "2 h itin illimit&e"}
OtherParts == {"", "Appels illimit&s", "SMS 1 h", "Box TV 280 Cha^nes", "10 Gbit/s 20 % CHF 9,90"}
TextTitles == {"Yallo Black", "Go Max"}

TextPages ==
    { [ h1 |-> title, og |-> "", body |-> a \o " " \o b \o " " \o c,
        prices |-> <<>>, oldPrices |-> <<>> ] :
        title \in TextTitles, a \in RoamWords, b \in RoamParts, c \in OtherParts }
    \cup { Pages(u) : u \in UrlSet }

\* lines 977-1026: the row as it is handed to canonicalize
rawRow(page, url) ==
    buildRow(withDiscount(withSelectorPrices(extractByRegex(cleanText(page.body)), page)),
             operatorOf(url), pageTitle(page))

TextInit ==
    /\ \E page \in TextPages :
          /\ pageText = cleanText(page.body)
          /\ row = rawRow(page, UrlMobile)
    /\ rowPc = "raw"

\* canonicalize(row, bodyText) applied to the row it returned
CanonicalizeAgain ==
    /\ rowPc = "canonical"
    /\ row' = canonicalize(row, pageText)
    /\ rowPc' = "twice"
    /\ UNCHANGED pageText

\* C28: in the steps extractByRegex -> canonicalize -> calculateCO2, for every
\* page text, a row whose roaming minutes are the unlimited sentinel also has
\* the sentinel as roaming data; so the CO2 estimate of every row that
\* extractOfferFromPage emits is not negative.
C28_RoamingKeepsCO2NonNegative ==
    /\ row.roamMin = Sentinel => row.roamData = Sentinel
    /\ rowPc = "estimated" => row.co2 # <<>> /\ row.co2[1] >= 0

C28_Witness ==
    /\ rowPc = "estimated"
    /\ row.typeOffre = Mobile
    /\ row.roamMin = Sentinel
    /\ includes(toLowerCase(row.name), "black")
    /\ row.co2 = <<181>>

\* C29: canonicalize is idempotent on the rows that it produces: for every row
\* built by extractOfferFromPage and every page text, a second canonicalize
\* with the same text leaves every field as the first one set it.
C29_CanonicalizeIdempotent ==
    [][rowPc' = "twice" => row' = row]_vars

C29_Witness ==
    /\ rowPc = "twice"
    /\ row.typeOffre = HomeWithTV
    /\ row.tv = "280 Chaines"
    /\ row.roamData = Sentinel

-----------------------------------------------------------------------------
(* scrape.mjs: fetchSitemapUrls(sitemapUrl, filter, depth) (406-427). The  *)
(* web is what fetchTextSmart gets for each sitemap URL during the run; a  *)
(* frame of the stack is one call, at its await.                           *)

\* .slice(0, 15) of the <loc> entries of a sitemap index
MaxListed == 15

\* the calls of fetchTextSmart in one run are at most MaxFetches
MaxFetches == 8

SitemapNames == {"/sitemap.xml", "/sitemap-fr.xml", "/sitemap-de.xml"}
RootSitemap == "/sitemap.xml"

\* the <loc> entries of a sitemap index: at most two of the names
LocLists ==
    {<<>>} \cup { <<a>> : a \in SitemapNames } \cup { <<a, b>> : a \in SitemapNames, b \in SitemapNames }

\* what a fetch gives: an error, a <urlset> of pages, or a <sitemapindex>
Documents ==
    { [ kind |-> "error", locs |-> <<>> ], [ kind |-> "urlset", locs |-> <<>> ] }
    \cup { [ kind |-> "index", locs |-> l ] : l \in LocLists }

SitemapInit ==
    /\ web \in [ SitemapNames -> Documents ]
    /\ stack = << [ url |-> RootSitemap, todo |-> <<>>, pc |-> "fetch" ] >>
    /\ fetches = 1
    /\ found = <<>>
    /\ smPc = "running"

slice15(list) == SubSeq(list, 1, Min(MaxListed, Len(list)))

\* the call on top of the stack returns: its caller does all.push(...urls)
\* and awaits sleep(150); the first call returns to run
return(frames) ==
    LET rest == SubSeq(frames, 1, Len(frames) - 1)
    IN /\ stack' = IF rest = <<>> THEN rest
                   ELSE [ rest EXCEPT ![Len(rest)].pc = "sleep" ]
       /\ smPc' = IF rest = <<>> THEN "returned" ELSE smPc
       /\ UNCHANGED fetches

\* for (const sm of sitemaps): the call on top of the stack, with list left
\* to visit, calls fetchSitemapUrls(sm, filter, depth + 1) or returns all
visit(list) ==
    IF list = <<>>
    THEN return(stack)
    ELSE /\ fetches < MaxFetches
         /\ stack' = Append([ stack EXCEPT ![Len(stack)].todo = Tail(list), ![Len(stack)].pc = "wait" ],
                            [ url |-> Head(list), todo |-> <<>>, pc |-> "fetch" ])
         /\ fetches' = fetches + 1
         /\ UNCHANGED smPc

\* await fetchTextSmart(sitemapUrl) is settled
Respond ==
    /\ stack # <<>>
    /\ stack[Len(stack)].pc = "fetch"
    /\ LET doc == web[stack[Len(stack)].url]
       IN CASE doc.kind = "error" -> (return(stack) /\ UNCHANGED found)
            [] doc.kind = "urlset" -> (return(stack) /\ found' = Append(found, stack[Len(stack)].url))
            [] OTHER -> (visit(slice15(doc.locs)) /\ UNCHANGED found)
    /\ UNCHANGED web

\* await sleep(150) is over: the next turn of the for loop
Wake ==
    /\ stack # <<>>
    /\ stack[Len(stack)].pc = "sleep"
    /\ visit(stack[Len(stack)].todo)
    /\ UNCHANGED <<web, found>>

SitemapIdle ==
    /\ web = <<>> /\ stack = <<>> /\ fetches = 0 /\ found = <<>> /\ smPc = "idle"

\* C30: fetchSitemapUrls terminates for every sitemap structure, also for an
\* index that lists itself and for two indexes that list each other: provided
\* every fetch is settled, the first call returns, and no sitemap is fetched
\* by a call made while it is being read by a call below it.
C30_SitemapTerminates ==
    /\ [](\A i, j \in 1..Len(stack) : i # j => stack[i].url # stack[j].url)
    /\ <>(smPc = "returned")

-----------------------------------------------------------------------------
(* Specifications                                                          *)

\* what each specification leaves alone
NotRow == <<refVars, poolVars, callVars, yalloVars, seenRefs, normVars, speedVars, csvVars, sinkVars, auditVars, sitemapVars>>
NotRef == <<rowVars, poolVars, callVars, yalloVars, seenRefs, normVars, speedVars, csvVars, sinkVars, auditVars, sitemapVars>>
NotPool == <<rowVars, refVars, callVars, yalloVars, normVars, speedVars, csvVars, sinkVars, auditVars, sitemapVars>>
NotCall == <<rowVars, refVars, poolVars, yalloVars, normVars, speedVars, csvVars, sinkVars, auditVars, sitemapVars>>
NotYallo == <<rowVars, refVars, poolVars, callVars, seenRefs, normVars, speedVars, csvVars, sinkVars, auditVars, sitemapVars>>

InitRow == RowInit /\ SitemapIdle /\ AuditIdle /\ SinkIdle /\ CsvIdle /\ SpeedIdle /\ NormIdle /\ RefIdle /\ PoolIdle /\ CallIdle /\ YalloIdle /\ seenRefs = {}

RowNext ==
    \/ Canonicalize /\ UNCHANGED NotRow
    \/ Estimate /\ UNCHANGED NotRow

SpecRow == InitRow /\ [][RowNext]_vars

InitRef == RefInit /\ SitemapIdle /\ AuditIdle /\ SinkIdle /\ CsvIdle /\ SpeedIdle /\ NormIdle /\ RowIdle /\ PoolIdle /\ CallIdle /\ YalloIdle /\ seenRefs = {}

RefNext ==
    \/ Tick /\ UNCHANGED NotRef
    \/ ReferenceOffer /\ UNCHANGED NotRef

SpecRef == InitRef /\ [][RefNext]_vars

InitPool == PoolInit /\ SitemapIdle /\ AuditIdle /\ SinkIdle /\ CsvIdle /\ SpeedIdle /\ NormIdle /\ RowIdle /\ RefIdle /\ CallIdle /\ YalloIdle

PoolNext ==
    \/ \E w \in DOMAIN worker : NewPage(w) /\ UNCHANGED NotPool
    \/ \E w \in DOMAIN worker : Extract(w) /\ UNCHANGED NotPool
    \/ \E w \in DOMAIN worker : Reject(w) /\ UNCHANGED NotPool
    \/ \E w \in DOMAIN worker : Push(w) /\ UNCHANGED NotPool
    \/ \E w \in DOMAIN worker : Retry(w) /\ UNCHANGED NotPool
    \/ \E w \in DOMAIN worker : Close(w) /\ UNCHANGED NotPool
    \/ Dedup /\ UNCHANGED NotPool

SpecPool == InitPool /\ [][PoolNext]_vars

InitCall == CallInit /\ SitemapIdle /\ AuditIdle /\ SinkIdle /\ CsvIdle /\ SpeedIdle /\ NormIdle /\ RowIdle /\ RefIdle /\ PoolIdle /\ YalloIdle

CallNext == \E i \in 1..Len(UrlPool) : Call(UrlPool[i]) /\ UNCHANGED NotCall

SpecCall == InitCall /\ [][CallNext]_vars

InitYallo == YalloInit /\ SitemapIdle /\ AuditIdle /\ SinkIdle /\ CsvIdle /\ SpeedIdle /\ NormIdle /\ RowIdle /\ RefIdle /\ PoolIdle /\ CallIdle /\ seenRefs = {}

YalloNext ==
    \/ YalloTick /\ UNCHANGED NotYallo
    \/ ScrapeCard /\ UNCHANGED NotYallo
    \/ HardStop /\ UNCHANGED NotYallo
    \/ YalloReturn /\ UNCHANGED NotYallo
    \/ WriteCsv /\ UNCHANGED NotYallo

SpecYallo == InitYallo /\ [][YalloNext]_vars

NotNorm == <<rowVars, refVars, poolVars, callVars, yalloVars, seenRefs, speedVars, csvVars, sinkVars, auditVars, sitemapVars>>

InitNorm == NormInit /\ SitemapIdle /\ AuditIdle /\ SinkIdle /\ CsvIdle /\ SpeedIdle /\ RowIdle /\ RefIdle /\ PoolIdle /\ CallIdle /\ YalloIdle /\ seenRefs = {}

NormNext ==
    \/ NormPage /\ UNCHANGED NotNorm
    \/ NormSkip /\ UNCHANGED NotNorm
    \/ NormWrite /\ UNCHANGED NotNorm

SpecNorm == InitNorm /\ [][NormNext]_vars

NotSpeed == <<rowVars, refVars, poolVars, callVars, yalloVars, normVars, seenRefs, csvVars, sinkVars, auditVars, sitemapVars>>

InitSpeed == SpeedInit /\ SitemapIdle /\ AuditIdle /\ SinkIdle /\ CsvIdle /\ RowIdle /\ RefIdle /\ PoolIdle /\ CallIdle /\ YalloIdle /\ NormIdle /\ seenRefs = {}

SpeedNext ==
    \/ ConvertToMbps /\ UNCHANGED NotSpeed
    \/ ConvertCanonical /\ UNCHANGED NotSpeed
    \/ ConvertSpeedText /\ UNCHANGED NotSpeed

SpecSpeed == InitSpeed /\ [][SpeedNext]_vars

NotCsv == <<rowVars, refVars, poolVars, callVars, yalloVars, normVars, speedVars, seenRefs, sinkVars, auditVars, sitemapVars>>

InitCsv == CsvInit /\ SitemapIdle /\ AuditIdle /\ SinkIdle /\ RowIdle /\ RefIdle /\ PoolIdle /\ CallIdle /\ YalloIdle /\ NormIdle /\ SpeedIdle /\ seenRefs = {}

CsvNext ==
    \/ SerializeRows /\ UNCHANGED NotCsv
    \/ SerializeYalloRows /\ UNCHANGED NotCsv

SpecCsv == InitCsv /\ [][CsvNext]_vars

NotSink == <<rowVars, refVars, poolVars, callVars, yalloVars, normVars, speedVars, csvVars, seenRefs, auditVars, sitemapVars>>

InitSink == SinkInit /\ SitemapIdle /\ AuditIdle /\ RowIdle /\ RefIdle /\ PoolIdle /\ CallIdle /\ YalloIdle /\ NormIdle /\ SpeedIdle /\ CsvIdle /\ seenRefs = {}

SinkNext ==
    \/ Setup /\ UNCHANGED NotSink
    \/ ScrapeMain /\ UNCHANGED NotSink
    \/ ScrapePart /\ UNCHANGED NotSink
    \/ WriteMain /\ UNCHANGED NotSink
    \/ WriteRun /\ UNCHANGED NotSink
    \/ WritePart /\ UNCHANGED NotSink
    \/ \E a \in Answers : RespondPushAirtable(a) /\ UNCHANGED NotSink
    \/ \E a \in Answers : RespondRun(a) /\ UNCHANGED NotSink
    \/ \E a \in Answers : RespondUpsert(a) /\ UNCHANGED NotSink

SpecSink == InitSink /\ [][SinkNext]_vars

NotAudit == <<rowVars, refVars, callVars, yalloVars, normVars, speedVars, csvVars, sinkVars, sitemapVars>>

InitAudit == PoolInit /\ SitemapIdle /\ AuditInit /\ RowIdle /\ RefIdle /\ CallIdle /\ YalloIdle /\ NormIdle /\ SpeedIdle /\ CsvIdle /\ SinkIdle

AuditNext ==
    \/ \E w \in DOMAIN worker : NewPage(w) /\ Observe(w) /\ UNCHANGED NotAudit
    \/ \E w \in DOMAIN worker : Extract(w) /\ Observe(w) /\ UNCHANGED NotAudit
    \/ \E w \in DOMAIN worker : RejectUpTo(w, MaxAuditThrown) /\ Observe(w) /\ UNCHANGED NotAudit
    \/ \E w \in DOMAIN worker : Push(w) /\ Observe(w) /\ UNCHANGED NotAudit
    \/ \E w \in DOMAIN worker : Retry(w) /\ Observe(w) /\ UNCHANGED NotAudit
    \/ \E w \in DOMAIN worker : Close(w) /\ Observe(w) /\ UNCHANGED NotAudit
    \/ Dedup /\ UNCHANGED tally /\ UNCHANGED NotAudit

SpecAudit == InitAudit /\ [][AuditNext]_vars

\* a step of worker w of the pool
WorkerStep(w) ==
    /\ w \in DOMAIN worker
    /\ NewPage(w) \/ Extract(w) \/ RejectUpTo(w, MaxAuditThrown) \/ Push(w) \/ Retry(w) \/ Close(w)
    /\ Observe(w)
    /\ UNCHANGED NotAudit

\* every promise a worker awaits is settled in the end: no worker waits for ever
FairAudit == InitAudit /\ [][AuditNext]_vars /\ \A w \in 1..CONCURRENCY : WF_vars(WorkerStep(w))

InitText == TextInit /\ SitemapIdle /\ RefIdle /\ PoolIdle /\ CallIdle /\ YalloIdle /\ NormIdle /\ SpeedIdle /\ CsvIdle /\ SinkIdle /\ AuditIdle /\ seenRefs = {}

TextNext ==
    \/ Canonicalize /\ UNCHANGED NotRow
    \/ Estimate /\ UNCHANGED NotRow
    \/ CanonicalizeAgain /\ UNCHANGED NotRow

SpecText == InitText /\ [][TextNext]_vars

NotSitemap == <<rowVars, refVars, poolVars, callVars, yalloVars, normVars, speedVars, csvVars, sinkVars, auditVars, seenRefs>>

InitSitemap == SitemapInit /\ RowIdle /\ RefIdle /\ PoolIdle /\ CallIdle /\ YalloIdle /\ NormIdle /\ SpeedIdle /\ CsvIdle /\ SinkIdle /\ AuditIdle /\ seenRefs = {}

SitemapNext ==
    \/ Respond /\ UNCHANGED NotSitemap
    \/ Wake /\ UNCHANGED NotSitemap

\* every fetch and every sleep is settled in the end
FairSitemap == InitSitemap /\ [][SitemapNext]_vars /\ WF_vars(SitemapNext)

\* a run of either pipeline of scrape.mjs, the pool on at most MaxEmitUrls URLs
MaxEmitUrls == 2

InitEmit == (InitPool /\ Len(urls) <= MaxEmitUrls) \/ InitNorm

EmitNext ==
    \/ \E w \in DOMAIN worker : NewPage(w) /\ UNCHANGED NotPool
    \/ \E w \in DOMAIN worker : Extract(w) /\ UNCHANGED NotPool
    \/ \E w \in DOMAIN worker : Reject(w) /\ UNCHANGED NotPool
    \/ \E w \in DOMAIN worker : Push(w) /\ UNCHANGED NotPool
    \/ \E w \in DOMAIN worker : Retry(w) /\ UNCHANGED NotPool
    \/ \E w \in DOMAIN worker : Close(w) /\ UNCHANGED NotPool
    \/ Dedup /\ UNCHANGED NotPool
    \/ NormPage /\ UNCHANGED NotNorm
    \/ NormSkip /\ UNCHANGED NotNorm
    \/ NormWrite /\ UNCHANGED NotNorm

SpecEmit == InitEmit /\ [][EmitNext]_vars

=============================================================================
